---- MODULE Spec2Model ----
(***************************************************************************)
(* Asynchronous image-processing core of desafio-fpf.                      *)
(*                                                                         *)
(* The model follows one job from the upload handler                       *)
(* (ImageController.upload_and_process) through the Celery task            *)
(* process_image_task, statement by statement, together with the polling   *)
(* handler ImageController.get_result.                                     *)
(*                                                                         *)
(*  - ResultStorage (api/services/result_storage.py) keeps, per task id,   *)
(*    a result key "vision:result:{id}" and a task key "vision:task:{id}". *)
(*    A payload is represented by its "status" and "error" fields.         *)
(*  - The Celery result backend keeps the key "celery-task-meta-{id}",     *)
(*    written by update_state and by the worker when the task ends, and    *)
(*    removed by RedisCleaner.clear_task_result.                           *)
(*  - The broker keeps one message per job; task_acks_late = True, so the  *)
(*    message is acknowledged when the task body has returned or raised.   *)
(*                                                                         *)
(* Specifications:                                                         *)
(*   Spec          uploads, jobs, worker loss and the polling client       *)
(*   SpecJobs      uploads, jobs and worker loss                           *)
(*   SpecTimeLimit Spec with jobs that run into task_time_limit            *)
(*   SpecGet       one job, the time limit, and the polling client         *)
(*   SpecPrefetch  jobs with the broker's reservations (prefetch)          *)
(*   SpecUpload    upload_and_process statement by statement               *)
(*   SpecStore     save_result / delete_result command by command          *)
(*   SpecList      list_results over a store filled by save_result         *)
(*   SpecQuery     the listing calls of the store (all, by status, period) *)
(*   SpecDetector  the detector built for each job of one worker process   *)
(*   SpecQr        the QR codes of one image through process_image         *)
(*   SpecBox       the bounding boxes of one image through process_image   *)
(*   SpecIds       the detection ids and crop files of concurrent jobs     *)
(*   SpecFmt       format_api_response applied twice to a stored payload   *)
(*   SpecExec      the executions of a task over several pool processes    *)
(*   SpecLadder    decode_multiple_attempts, attempt by attempt            *)
(*   SpecConfig    prepare_processing_config over the jobs of one process  *)
(*   SpecCoord     validate_coordinates on boxes and image shapes          *)
(*   SpecLive      SpecJobs and the time limit with a reachable store and  *)
(*                 bus, and a worker that keeps taking and running jobs    *)
(***************************************************************************)
EXTENDS Integers, FiniteSets, Sequences, TLC

\* ---------------------------------------------------------------- bounds
NumTasks == 2
NumWorkers == 1
MaxFaults == 1
MaxJobs == 4
MaxClock == 3
MaxQr == 2
MaxObjects == 1
NumProcs == 2
MaxDecodable == 2
MaxSide == 2
Resolution == 2

Tasks == 1..NumTasks
\* the task ids the store holds keys for: the jobs of the run and one task
\* that was stored before it
StoreIds == 1..(NumTasks + 1)
Workers == 1..NumWorkers
NoJob == 0
Procs == 1..NumProcs
NoExec == [task |-> NoJob, delivery |-> 0, rows |-> 0]
RowsPerJob == 2
ZeroBox == [x |-> 0, y |-> 0, width |-> 0, height |-> 0]
\* Python's None
None == "<None>"

\* core/config.py lines 23-31: DEFAULT_CONFIG, which has no key "save_crops"
DEFAULT_CONFIG ==
    [confidence_threshold |-> 50, qr_crops_dir |-> "qr_crops",
     preprocessing_config |-> [target_size |-> <<640, 640>>, normalize |-> TRUE,
                               enhance_contrast |-> TRUE]]

\* ------------------------------------------------------ program constants
\* celery_config.py: task_track_started=True, task_acks_late=True
TaskTrackStarted == TRUE
TaskAcksLate == TRUE

Absent == "absent"
NoTime == 0

VARIABLES
    broker,       \* broker[t]: "none" | "queued" | "reserved" | "acked"
    fileExists,   \* fileExists[t]: the uploaded file is on disk
    resultKey,    \* vision:result:{t}  (status of the stored payload, or Absent)
    taskKey,      \* vision:task:{t}    (status in the task metadata, or Absent)
    celeryMeta,   \* celery-task-meta-{t} (stored state, or Absent)
    pc,           \* pc[w]: position of worker w inside process_image_task
    job,          \* job[w]: task id the worker executes, or NoJob
    saved,        \* saved[w]: what the last save_result of a terminal payload
                  \*   returned in this execution ("none" before any)
    exc,          \* exc[w]: str(e) of the exception the except block handles
    resultError,  \* "error" field of the payload in vision:result:{t}
    createdAt,    \* "created_at" in the task metadata (NoTime without the key)
    index,        \* the set vision:results_index
    now,          \* the clock read by datetime.now()
    wPc,          \* position of a caller of the store inside save_result or
                  \*   delete_result
    wCall,        \* that call: operation, task id, payload, time of the call
    listed,       \* the last list_results request and its response
    queried,      \* the last listing call made on the store and its answer
    lostAfterCore,\* lostAfterCore[t]: a worker was lost after process_image_core
                  \*   returned (source file removed) and before the terminal save
    getPc,        \* position of the polling client's GET inside get_result
    resp,         \* response of the client's last finished GET
    faults,       \* number of failures so far: storage errors, result-backend
                  \*   errors, failing os.remove, worker losses
    upPc,         \* position of the upload handler inside upload_and_process
    upReq,        \* the upload request being handled, or the last one handled
    upTask,       \* task id (and file name) the handler works on
    upResp,       \* response of the last finished upload
    prefetched,   \* prefetched[w]: messages worker w has reserved and not started
    jobKeys,      \* (model_path, confidence_threshold) of the jobs one worker
                  \*   process has run, in order
    detector,     \* the YOLODetector held by the newest VisionProcessor
    loads,         \* number of YOLO(model_path) calls in that process
    qrPc,         \* position of a worker inside VisionProcessor.process_image
    image,        \* the image being processed: its QR detections, what the crop
                  \*   ladder finds in each, what the direct decode finds, and
                  \*   save_qr_crops
    qrCrops,      \* qr_crops_info of process_image
    qrOut,        \* result["qr_codes"] of the last processed image
    boxPc,        \* position of a worker inside process_image, for the bounding boxes
    meta,         \* preprocessing_metadata of the image being processed
    detections,   \* detections of the detector on the processed image
    payload,      \* the bounding boxes and image_resolution of the result payload
    idPc,         \* idPc[t]: position of the job of task t inside process_image_core
    detIds,       \* detIds[t]: object_id / qr_id of the detections of task t, in order
    cropFiles,    \* the crop files written so far: path, task and detection
    fmtPc,        \* position of a caller that formats a stored payload twice
    stored,       \* the stored payload p the caller holds
    given,        \* the payload as it was when the caller passed it to the formatter
    out1,         \* format_api_response(p)
    out2,         \* format_api_response(format_api_response(p))
    qmsg,         \* state of the message of a task in the queue
    running,      \* the execution a pool process runs
    deliveries,   \* times the message of a task was delivered
    writers,      \* the deliveries that wrote the rows of a task, in order
    ladPc,        \* position of decode_multiple_attempts
    decodable,    \* the attempts of the ladder that read the crop at hand
    attempts,     \* the attempts made so far, in order
    decoded,      \* what decode_multiple_attempts returned
    defaultConfig, \* the module-level DEFAULT_CONFIG of a worker process
    jobConfig,    \* the config prepare_processing_config returned last
    handled,      \* the task_metadata of the jobs the process handled, in order
    vcPc,         \* position of a caller of validate_coordinates
    vcBox,        \* the bbox argument, in pixel fractions
    vcShape,      \* the image_shape argument (height, width)
    vcOut        \* the bounding box returned, in pixels

vars == <<broker, fileExists, resultKey, taskKey, resultError, createdAt, index,
          now, wPc, wCall, listed, queried, celeryMeta, pc,
          job, saved, exc, lostAfterCore, getPc, resp, faults,
          upPc, upReq, upTask, upResp, prefetched, jobKeys, detector, loads,
          qrPc, image, qrCrops, qrOut,
          boxPc, meta, detections, payload,
          idPc, detIds, cropFiles,
          fmtPc, stored, given, out1, out2,
          qmsg, running, deliveries, writers,
          ladPc, decodable, attempts, decoded,
          defaultConfig, jobConfig, handled,
          vcPc, vcBox, vcShape, vcOut>>

storeVars == <<resultKey, taskKey, resultError, createdAt, index>>
workerVars == <<pc, job, saved, exc>>
clientVars == <<getPc, resp>>
uploadVars == <<upPc, upReq, upTask, upResp>>

\* state of the handlers that are followed statement by statement in
\* specifications of their own
prefetchVars == <<prefetched>>
detectorVars == <<jobKeys, detector, loads>>
clockVars == <<now>>
callVars == <<wPc, wCall>>
listVars == <<listed>>
queryVars == <<queried>>
qrVars == <<qrPc, image, qrCrops, qrOut>>
boxVars == <<boxPc, meta, detections, payload>>
idVars == <<idPc, detIds, cropFiles>>
fmtVars == <<fmtPc, stored, given, out1, out2>>
execVars == <<qmsg, running, deliveries, writers>>
ladderVars == <<ladPc, decodable, attempts, decoded>>
configVars == <<defaultConfig, jobConfig, handled>>
coordVars == <<vcPc, vcBox, vcShape, vcOut>>
auxVars == <<uploadVars, prefetchVars, detectorVars, clockVars, callVars, listVars, queryVars, qrVars, boxVars, idVars, fmtVars, execVars, ladderVars, configVars, coordVars>>
nonUploadAux == <<prefetchVars, detectorVars, clockVars, callVars, listVars, queryVars, qrVars, boxVars, idVars, fmtVars, execVars, ladderVars, configVars, coordVars>>
nonPrefetchAux == <<uploadVars, detectorVars, clockVars, callVars, listVars, queryVars, qrVars, boxVars, idVars, fmtVars, execVars, ladderVars, configVars, coordVars>>
nonDetectorAux == <<uploadVars, prefetchVars, clockVars, callVars, listVars, queryVars, qrVars, boxVars, idVars, fmtVars, execVars, ladderVars, configVars, coordVars>>
nonStoreAux == <<uploadVars, prefetchVars, detectorVars, listVars, queryVars, qrVars, boxVars, idVars, fmtVars, execVars, ladderVars, configVars, coordVars>>
nonListAux == <<uploadVars, prefetchVars, detectorVars, callVars, queryVars, qrVars, boxVars, idVars, fmtVars, execVars, ladderVars, configVars, coordVars>>
nonQueryAux == <<uploadVars, prefetchVars, detectorVars, callVars, listVars, qrVars, boxVars, idVars, fmtVars, execVars, ladderVars, configVars, coordVars>>
nonQrAux == <<uploadVars, prefetchVars, detectorVars, clockVars, callVars, listVars, queryVars, boxVars, idVars, fmtVars, execVars, ladderVars, configVars, coordVars>>
nonBoxAux == <<uploadVars, prefetchVars, detectorVars, clockVars, callVars, listVars, queryVars, qrVars, idVars, fmtVars, execVars, ladderVars, configVars, coordVars>>
nonIdAux == <<uploadVars, prefetchVars, detectorVars, clockVars, callVars, listVars, queryVars, qrVars, boxVars, fmtVars, execVars, ladderVars, configVars, coordVars>>
nonFmtAux == <<uploadVars, prefetchVars, detectorVars, clockVars, callVars, listVars, queryVars, qrVars, boxVars, idVars, execVars, ladderVars, configVars, coordVars>>
nonExecAux == <<uploadVars, prefetchVars, detectorVars, clockVars, callVars, listVars, queryVars, qrVars, boxVars, idVars, fmtVars, ladderVars, configVars, coordVars>>
nonLadderAux == <<uploadVars, prefetchVars, detectorVars, clockVars, callVars, listVars, queryVars, qrVars, boxVars, idVars, fmtVars, execVars, configVars, coordVars>>
nonConfigAux == <<uploadVars, prefetchVars, detectorVars, clockVars, callVars, listVars, queryVars, qrVars, boxVars, idVars, fmtVars, execVars, ladderVars, coordVars>>
nonCoordAux == <<uploadVars, prefetchVars, detectorVars, clockVars, callVars, listVars, queryVars, qrVars, boxVars, idVars, fmtVars, execVars, ladderVars, configVars>>

NoResp == [code |-> 0, body |-> "none"]
NoReq == [content_type |-> <<>>, filename |-> "", size |-> 0]
NoUpResp == [code |-> 0, task_id |-> NoJob, status |-> "none"]
NoDetector == [id |-> 0, key |-> <<>>]
NoCall == [op |-> "none", task |-> NoJob, result |-> <<>>, at |-> NoTime]
NoListing == [req |-> <<>>, tasks |-> <<>>, total |-> 0, page |-> 0, limit |-> 0]
\* the dict {}
EmptyDict == <<>>
NoMeta == [original_shape |-> <<0, 0>>, scale_factor |-> <<1, 1>>,
           processed_shape |-> <<0, 0>>]
NoDetections == [detected_objects |-> <<>>, qr_codes |-> <<>>]
NoPayload == [image_resolution |-> <<0, 0>>, detected_objects |-> <<>>,
              qr_codes |-> <<>>]
NoImage == [qrs |-> <<>>, direct |-> <<>>, save |-> FALSE]
NoQuery == [op |-> "none", status |-> "", start |-> NoTime, end |-> NoTime,
            limit |-> 0, tasks |-> <<>>]

IsTerminal(s) == s \in {"COMPLETED", "completed", "failed"}

\* ------------------------------------------------ payloads built by the task
\* A payload is its "status" field and its "error" field (NoError when the
\* payload has none).
NoError == <<>>
create_initial_result == [status |-> "processing", error |-> NoError]
create_success_result == [status |-> "COMPLETED", error |-> NoError]
create_error_result(error_msg) == [status |-> "failed", error |-> error_msg]

\* str(e) of the exceptions the task body can meet
NoExc == "none"
FileNotFoundError == "Imagem não encontrada"
PipelineError == "pipeline error"
BackendError == "result backend error"

\* an error message that leaves the exception text out
ErrorMsg_generic(e) == <<"Erro no processamento da imagem">>

\* line 132: error_msg = f"Erro no processamento da imagem {image_path}: {str(e)}"
ErrorMsg(e) == <<"Erro no processamento da imagem", e>>
Contains(msg, s) == \E i \in DOMAIN msg : msg[i] = s

\* --------------------------------------------------------- ResultStorage
\* The commands of save_result (lines 51-54) and delete_result (lines 154-157).
\* pipe.setex(result_key, ttl, result_json)
setex_result(t, result) ==
    /\ resultKey' = [resultKey EXCEPT ![t] = result.status]
    /\ resultError' = [resultError EXCEPT ![t] = result.error]

\* pipe.setex(task_key, ttl, json.dumps(task_metadata)); lines 43-49:
\* task_metadata has the status of the payload and created_at = datetime.now()
setex_task(t, result, created_at) ==
    /\ taskKey' = [taskKey EXCEPT ![t] = result.status]
    /\ createdAt' = [createdAt EXCEPT ![t] = created_at]

\* pipe.sadd(self.index_key, task_id)
sadd_index(t) == index' = index \cup {t}

\* pipe.delete(result_key)
delete_result_key(t) ==
    /\ resultKey' = [resultKey EXCEPT ![t] = Absent]
    /\ resultError' = [resultError EXCEPT ![t] = NoError]

\* pipe.delete(task_key)
delete_task_key(t) ==
    /\ taskKey' = [taskKey EXCEPT ![t] = Absent]
    /\ createdAt' = [createdAt EXCEPT ![t] = NoTime]

\* pipe.srem(self.index_key, task_id)
srem_index(t) == index' = index \ {t}

\* a save_result whose keys do not depend on the task id
save_result_shared_key(t, result, ok) ==
    IF ok
    THEN /\ resultKey' = [u \in StoreIds |-> result.status]
         /\ resultError' = [u \in StoreIds |-> result.error]
         /\ taskKey' = [u \in StoreIds |-> result.status]
         /\ createdAt' = [u \in StoreIds |-> now]
         /\ index' = StoreIds
    ELSE UNCHANGED storeVars

\* save_result: the three commands go through one pipeline, which redis-py
\* runs as one MULTI/EXEC transaction; returns True.  On a storage exception
\* nothing is written and False is returned.
save_result(t, result, ok) ==
    IF ok
    THEN setex_result(t, result) /\ setex_task(t, result, now) /\ sadd_index(t)
    ELSE UNCHANGED storeVars

\* delete_result: the same, with the three removals
delete_result(t, ok) ==
    IF ok
    THEN delete_result_key(t) /\ delete_task_key(t) /\ srem_index(t)
    ELSE UNCHANGED storeVars

get_result(t) == resultKey[t]

\* ------------------------------------------------------- result backend
\* AsyncResult.state: the stored state, PENDING when the key does not exist.
BusState(t) == IF celeryMeta[t] = Absent THEN "PENDING" ELSE celeryMeta[t]

\* current_task.update_state(state=...)
update_state(t, state) == celeryMeta' = [celeryMeta EXCEPT ![t] = state]

\* RedisCleaner.clear_task_result: deletes celery-task-meta-{t}; every
\* exception is swallowed (ok = FALSE leaves the key alone).
clear_task_result(t, ok) ==
    IF ok
    THEN celeryMeta' = [celeryMeta EXCEPT ![t] = Absent]
    ELSE UNCHANGED celeryMeta

\* a validate_image_path that accepts a missing file
validate_image_path_unchecked(t) == TRUE

\* validate_image_path: os.path.exists(image_path)
validate_image_path(t) == fileExists[t]

\* ImagePreprocessor.load_image: cv2.imread gives None for a missing file and
\* the function raises
load_image(t) == fileExists[t]

\* a failure of the environment (storage error, result-backend error, failing
\* os.remove, worker loss) may happen while the budget lasts
MayFail == faults < MaxFaults
Outcomes == IF MayFail THEN {TRUE, FALSE} ELSE {TRUE}
Charge(ok) == faults' = IF ok THEN faults ELSE faults + 1

Goto(w, label) == pc' = [pc EXCEPT ![w] = label]

\* an exception e raised inside the try block: control goes to line 131,
\* "except Exception as e"
Except(w, e) ==
    /\ pc' = [pc EXCEPT ![w] = "exc_emit_failure"]
    /\ exc' = [exc EXCEPT ![w] = e]

Init ==
    /\ broker = [t \in Tasks |-> "none"]
    /\ fileExists = [t \in Tasks |-> FALSE]
    /\ resultKey = [t \in StoreIds |-> Absent]
    /\ taskKey = [t \in StoreIds |-> Absent]
    /\ resultError = [t \in StoreIds |-> NoError]
    /\ createdAt = [t \in StoreIds |-> NoTime]
    /\ index = {}
    /\ now = 1
    /\ wPc = "idle"
    /\ wCall = NoCall
    /\ listed = NoListing
    /\ queried = NoQuery
    /\ celeryMeta = [t \in Tasks |-> Absent]
    /\ pc = [w \in Workers |-> "idle"]
    /\ job = [w \in Workers |-> NoJob]
    /\ saved = [w \in Workers |-> "none"]
    /\ exc = [w \in Workers |-> NoExc]
    /\ lostAfterCore = [t \in Tasks |-> FALSE]
    /\ getPc = "idle"
    /\ resp = NoResp
    /\ faults = 0
    /\ upPc = "idle"
    /\ upReq = NoReq
    /\ upTask = NoJob
    /\ upResp = NoUpResp
    /\ prefetched = [w \in Workers |-> {}]
    /\ jobKeys = <<>>
    /\ detector = NoDetector
    /\ loads = 0
    /\ qrPc = "idle"
    /\ image = NoImage
    /\ qrCrops = <<>>
    /\ qrOut = <<>>
    /\ boxPc = "idle"
    /\ meta = NoMeta
    /\ detections = NoDetections
    /\ payload = NoPayload
    /\ idPc = [t \in Tasks |-> "queued"]
    /\ detIds = [t \in Tasks |-> <<>>]
    /\ cropFiles = {}
    /\ fmtPc = "idle"
    /\ stored = EmptyDict
    /\ given = EmptyDict
    /\ out1 = EmptyDict
    /\ out2 = EmptyDict
    /\ qmsg = [t \in Tasks |-> "none"]
    /\ running = [p \in Procs |-> NoExec]
    /\ deliveries = [t \in Tasks |-> 0]
    /\ writers = [t \in Tasks |-> <<>>]
    /\ ladPc = "idle"
    /\ decodable = {}
    /\ attempts = <<>>
    /\ decoded = None
    /\ defaultConfig = DEFAULT_CONFIG
    /\ jobConfig = <<>>
    /\ handled = <<>>
    /\ vcPc = "idle"
    /\ vcBox = ZeroBox
    /\ vcShape = <<1, 1>>
    /\ vcOut = ZeroBox

\* ------------------------------------------------------ upload_and_process
\* An accepted upload: the file is written, then process_image_task.delay
\* enqueues the job; the task id is returned to the client.  Task ids are
\* fresh: they are handed out in increasing order.
Upload(t) ==
    /\ broker[t] = "none"
    /\ \A u \in Tasks : u < t => broker[u] # "none"
    /\ fileExists' = [fileExists EXCEPT ![t] = TRUE]
    /\ broker' = [broker EXCEPT ![t] = "queued"]
    /\ UNCHANGED <<storeVars, celeryMeta, workerVars, lostAfterCore, clientVars, faults,
                   auxVars>>

\* ------------------------------- upload_and_process, statement by statement
\* A content type is its parts around the first "/"; None and "" have none.
\* A file name is represented by its suffix (Path(filename).suffix).
ContentTypes == {<<>>, <<"image", "jpeg">>, <<"text", "plain">>, <<"IMAGE", "PNG">>}
Suffixes == {".jpg", ".PNG", ".gif", ""}

\* __init__ line 32
max_file_size == 10 * 1024 * 1024
Sizes == {1, max_file_size, max_file_size + 1}

\* core/config.py line 47
SUPPORTED_IMAGE_EXTENSIONS == {".jpg", ".jpeg", ".png", ".bmp", ".tiff", ".tif"}

\* str.lower() on the suffixes in use
Lower(x) == IF x = ".PNG" THEN ".png" ELSE x

\* line 44: not file.content_type or not file.content_type.startswith('image/')
BadContentType(ct) == ct = <<>> \/ ct[1] # "image"

\* lines 50-51: Path(file.filename).suffix.lower() not in allowed_extensions
BadExtension(filename) == Lower(filename) \notin SUPPORTED_IMAGE_EXTENSIONS

\* a size check that also refuses a body of exactly max_file_size
TooLarge_inclusive(size) == size >= max_file_size

\* line 58: len(content) > self.max_file_size
TooLarge(size) == size > max_file_size

\* lines 44-62: the status of the HTTPException raised, 0 when none is
UploadRejection(req) ==
    IF BadContentType(req.content_type) THEN 400
    ELSE IF BadExtension(req.filename) THEN 400
    ELSE IF TooLarge(req.size) THEN 413
    ELSE 0

\* a handler that enqueues the job before it writes the file
UploadSteps_enqueue_first == <<"enqueue", "write">>

\* lines 64-78: the file is written and closed, then the job is enqueued
UploadSteps == <<"write", "enqueue">>

\* the uuid4 file name and the Celery task id are fresh
FreshTask == CHOOSE t \in Tasks : broker[t] = "none" /\ ~fileExists[t]
                                  /\ \A u \in Tasks : u < t => broker[u] # "none"
HasFreshTask == \E t \in Tasks : broker[t] = "none" /\ ~fileExists[t]
                                 /\ \A u \in Tasks : u < t => broker[u] # "none"

\* lines 44-62: the three checks; a rejected request ends here
UploadCheck(ct, fn, size) ==
    /\ upPc = "idle"
    /\ LET req == [content_type |-> ct, filename |-> fn, size |-> size]
       IN /\ upReq' = req
          /\ IF UploadRejection(req) # 0
             THEN /\ upResp' = [code |-> UploadRejection(req), task_id |-> NoJob,
                                status |-> "none"]
                  /\ UNCHANGED <<upPc, upTask>>
             ELSE /\ HasFreshTask
                  /\ upPc' = UploadSteps[1]
                  /\ upTask' = FreshTask
                  /\ UNCHANGED upResp
    /\ UNCHANGED <<broker, fileExists, storeVars, celeryMeta, workerVars,
                   lostAfterCore, clientVars, faults, nonUploadAux>>

\* after the statement at position p: the next statement, or the return of
\* lines 80-84 with the task id and status "pending"
UploadAdvance(p) ==
    IF p = UploadSteps[1]
    THEN upPc' = UploadSteps[2] /\ UNCHANGED upResp
    ELSE /\ upPc' = "idle"
         /\ upResp' = [code |-> 200, task_id |-> upTask, status |-> "pending"]

\* lines 64-68: aiofiles.open(file_path, 'wb'), await f.write(content)
UploadWrite ==
    /\ upPc = "write"
    /\ fileExists' = [fileExists EXCEPT ![upTask] = TRUE]
    /\ UploadAdvance("write")
    /\ UNCHANGED <<broker, storeVars, celeryMeta, workerVars, lostAfterCore,
                   clientVars, faults, upReq, upTask, nonUploadAux>>

\* lines 70-78: process_image_task.delay(str(file_path), metadata)
UploadEnqueue ==
    /\ upPc = "enqueue"
    /\ broker' = [broker EXCEPT ![upTask] = "queued"]
    /\ UploadAdvance("enqueue")
    /\ UNCHANGED <<fileExists, storeVars, celeryMeta, workerVars, lostAfterCore,
                   clientVars, faults, upReq, upTask, nonUploadAux>>

\* ------------------------------------------------------- process_image_task
\* The broker hands a queued message to an idle worker.  The message stays
\* unacknowledged (acks_late).  With task_track_started the worker stores the
\* state STARTED in the result backend before the task body runs.  Workers
\* are interchangeable: the idle worker of least index takes the message.
Deliver(w, t) ==
    /\ pc[w] = "idle"
    /\ \A v \in Workers : v < w => pc[v] # "idle"
    /\ broker[t] = "queued"
    /\ broker' = [broker EXCEPT ![t] = "reserved"]
    /\ job' = [job EXCEPT ![w] = t]
    /\ saved' = [saved EXCEPT ![w] = "none"]
    /\ Goto(w, "save_initial")
    /\ celeryMeta' = IF TaskTrackStarted
                     THEN [celeryMeta EXCEPT ![t] = "STARTED"]
                     ELSE celeryMeta
    /\ UNCHANGED <<fileExists, storeVars, exc, lostAfterCore, clientVars, faults,
                   auxVars>>

\* celery_config.py line 26: worker_prefetch_multiplier=2.  A worker process
\* reserves messages ahead of the job it executes, up to the multiplier; with
\* task_acks_late the job it executes stays unacknowledged as well.
worker_prefetch_multiplier == 2

Unacked(w) == prefetched[w] \cup (IF job[w] = NoJob THEN {} ELSE {job[w]})

Reserve(w, t) ==
    /\ broker[t] = "queued"
    /\ Cardinality(Unacked(w)) < worker_prefetch_multiplier
    /\ broker' = [broker EXCEPT ![t] = "reserved"]
    /\ prefetched' = [prefetched EXCEPT ![w] = @ \cup {t}]
    /\ UNCHANGED <<fileExists, storeVars, celeryMeta, workerVars, lostAfterCore,
                   clientVars, faults, nonPrefetchAux>>

\* the worker process starts a message it has reserved
Start(w, t) ==
    /\ pc[w] = "idle"
    /\ t \in prefetched[w]
    /\ prefetched' = [prefetched EXCEPT ![w] = @ \ {t}]
    /\ job' = [job EXCEPT ![w] = t]
    /\ saved' = [saved EXCEPT ![w] = "none"]
    /\ Goto(w, "save_initial")
    /\ celeryMeta' = IF TaskTrackStarted
                     THEN [celeryMeta EXCEPT ![t] = "STARTED"]
                     ELSE celeryMeta
    /\ UNCHANGED <<broker, fileExists, storeVars, exc, lostAfterCore, clientVars,
                   faults, nonPrefetchAux>>

\* lines 103-104: result_storage.save_result(task_id, initial_result); the
\* returned boolean is not looked at.
SaveInitial(w) ==
    /\ pc[w] = "save_initial"
    /\ \E ok \in Outcomes :
          /\ save_result(job[w], create_initial_result, ok)
          /\ Charge(ok)
    /\ Goto(w, "emit_processing")
    /\ UNCHANGED <<broker, fileExists, celeryMeta, job, saved, exc,
                   lostAfterCore, clientVars,
                   auxVars>>

\* lines 108-111: current_task.update_state(state="PROCESSING"); a backend
\* error raises into the except block.
EmitProcessing(w) ==
    /\ pc[w] = "emit_processing"
    /\ \E ok \in Outcomes :
          /\ Charge(ok)
          /\ IF ok
             THEN /\ update_state(job[w], "PROCESSING")
                  /\ Goto(w, "validate")
                  /\ UNCHANGED exc
             ELSE /\ UNCHANGED celeryMeta
                  /\ Except(w, BackendError)
    /\ UNCHANGED <<broker, fileExists, storeVars, job, saved, lostAfterCore,
                   clientVars,
                   auxVars>>

\* lines 113-115: validate_image_path raises FileNotFoundError when the file
\* is missing; prepare_processing_config has no effect on shared state.
Validate(w) ==
    /\ pc[w] = "validate"
    /\ IF validate_image_path(job[w])
       THEN Goto(w, "core") /\ UNCHANGED exc
       ELSE Except(w, FileNotFoundError)
    /\ UNCHANGED <<broker, fileExists, storeVars, celeryMeta, job, saved,
                   lostAfterCore, clientVars, faults,
                   auxVars>>

\* VisionProcessor.process_image, lines 192-201, called with
\* remove_source_file=True: os.remove(image_input) when the file exists; a
\* failing os.remove is logged and the file stays.
FileAfterRemove(removed) == ~removed

\* line 117: process_image_core.  The pipeline either raises (image load or
\* detection failure, the source file is left alone) or returns a result and
\* removes the source file.
Core(w) ==
    /\ pc[w] = "core"
    /\ \/ /\ Except(w, PipelineError)
          /\ UNCHANGED <<fileExists, faults>>
       \/ /\ load_image(job[w])
          /\ \E removed \in Outcomes :
                /\ fileExists' = [fileExists EXCEPT ![job[w]] = FileAfterRemove(removed)]
                /\ Charge(removed)
          /\ Goto(w, "handle_save")
          /\ UNCHANGED exc
    /\ UNCHANGED <<broker, storeVars, celeryMeta, job, saved, lostAfterCore,
                   clientVars,
                   auxVars>>

\* lines 119-121 and handle_processing_result line 77:
\* success = result_storage.save_result(task_id, result)
ClearAfterSave(success) == IF success THEN "handle_clear" ELSE "emit_success"

HandleSave(w) ==
    /\ pc[w] = "handle_save"
    /\ \E ok \in Outcomes :
          /\ save_result(job[w], create_success_result, ok)
          /\ Charge(ok)
          /\ saved' = [saved EXCEPT ![w] = IF ok THEN "true" ELSE "false"]
          /\ Goto(w, ClearAfterSave(ok))
    /\ UNCHANGED <<broker, fileExists, celeryMeta, job, exc, lostAfterCore,
                   clientVars,
                   auxVars>>

\* handle_processing_result lines 78-79: redis_cleaner.clear_task_result
HandleClear(w) ==
    /\ pc[w] = "handle_clear"
    /\ \E ok \in Outcomes :
          /\ clear_task_result(job[w], ok)
          /\ Charge(ok)
    /\ Goto(w, "emit_success")
    /\ UNCHANGED <<broker, fileExists, storeVars, job, saved, exc,
                   lostAfterCore, clientVars,
                   auxVars>>

\* lines 123-126: self.update_state(state="SUCCESS"); a backend error raises
\* into the except block.
EmitSuccess(w) ==
    /\ pc[w] = "emit_success"
    /\ \E ok \in Outcomes :
          /\ Charge(ok)
          /\ IF ok
             THEN /\ update_state(job[w], "SUCCESS")
                  /\ Goto(w, "return")
                  /\ UNCHANGED exc
             ELSE /\ UNCHANGED celeryMeta
                  /\ Except(w, BackendError)
    /\ UNCHANGED <<broker, fileExists, storeVars, job, saved, lostAfterCore,
                   clientVars,
                   auxVars>>

\* lines 135-143: current_task.update_state(state="FAILURE") inside the except
\* block; when it raises, the new exception leaves the task at once.
EmitFailure(w) ==
    /\ pc[w] = "exc_emit_failure"
    /\ \E ok \in Outcomes :
          /\ Charge(ok)
          /\ IF ok
             THEN /\ update_state(job[w], "FAILURE")
                  /\ Goto(w, "exc_save")
                  /\ UNCHANGED exc
             ELSE /\ UNCHANGED celeryMeta
                  /\ Goto(w, "raise")
                  /\ exc' = [exc EXCEPT ![w] = BackendError]
    /\ UNCHANGED <<broker, fileExists, storeVars, job, saved, lostAfterCore,
                   clientVars,
                   auxVars>>

\* lines 145-147: result_storage.save_result(task_id, error result); the
\* returned boolean is not looked at.
ExcSave(w) ==
    /\ pc[w] = "exc_save"
    /\ \E ok \in Outcomes :
          /\ save_result(job[w], create_error_result(ErrorMsg(exc[w])), ok)
          /\ Charge(ok)
          /\ saved' = [saved EXCEPT ![w] = IF ok THEN "true" ELSE "false"]
    /\ Goto(w, "exc_clear")
    /\ UNCHANGED <<broker, fileExists, celeryMeta, job, exc, lostAfterCore,
                   clientVars,
                   auxVars>>

\* line 148: redis_cleaner.clear_task_result(task_id)
ExcClear(w) ==
    /\ pc[w] = "exc_clear"
    /\ \E ok \in Outcomes :
          /\ clear_task_result(job[w], ok)
          /\ Charge(ok)
    /\ Goto(w, "raise")
    /\ UNCHANGED <<broker, fileExists, storeVars, job, saved, exc,
                   lostAfterCore, clientVars,
                   auxVars>>

\* The task body has ended.  The worker stores the outcome in the result
\* backend (backend=REDIS_URL) and, acks_late, acknowledges the message.
Finish(w, state) ==
    /\ update_state(job[w], state)
    /\ broker' = [broker EXCEPT ![job[w]] = IF TaskAcksLate THEN "acked" ELSE @]
    /\ job' = [job EXCEPT ![w] = NoJob]
    /\ saved' = [saved EXCEPT ![w] = "none"]
    /\ exc' = [exc EXCEPT ![w] = NoExc]
    /\ Goto(w, "idle")
    /\ UNCHANGED <<fileExists, storeVars, lostAfterCore, clientVars, faults,
                   auxVars>>

\* line 129: return result
Return(w) ==
    /\ pc[w] = "return"
    /\ Finish(w, "SUCCESS")

\* line 151: raise
Raise(w) ==
    /\ pc[w] = "raise"
    /\ Finish(w, "FAILURE")

\* The worker is lost while it executes a job: the unacknowledged message
\* goes back to the queue (at-least-once delivery).
PastCore == {"handle_save"}

WorkerLost(w) ==
    /\ pc[w] # "idle"
    /\ MayFail
    /\ Charge(FALSE)
    /\ broker' = [broker EXCEPT ![job[w]] = "queued"]
    /\ lostAfterCore' = [lostAfterCore EXCEPT ![job[w]] =
                            @ \/ (pc[w] \in PastCore /\ ~fileExists[job[w]])]
    /\ job' = [job EXCEPT ![w] = NoJob]
    /\ saved' = [saved EXCEPT ![w] = "none"]
    /\ exc' = [exc EXCEPT ![w] = NoExc]
    /\ Goto(w, "idle")
    /\ UNCHANGED <<fileExists, storeVars, celeryMeta, clientVars,
                   auxVars>>

\* ------------------------------------ ResultStorage, command by command
\* the payloads the task hands to save_result
Payloads == {create_initial_result, create_success_result,
             create_error_result(ErrorMsg(PipelineError))}

\* a pipeline that sends its commands one by one, outside MULTI/EXEC
Transaction_off == FALSE

\* lines 51 and 154: self.redis_client.pipeline(); redis-py's pipeline() has
\* transaction=True, the buffered commands run as one MULTI/EXEC
Transaction == TRUE

\* time passes
Tick ==
    /\ now < MaxClock
    /\ now' = now + 1
    /\ UNCHANGED <<broker, fileExists, storeVars, celeryMeta, workerVars,
                   lostAfterCore, clientVars, faults, callVars, nonStoreAux>>

\* save_result lines 36-54: the payload is serialised, task_metadata is built
\* with created_at = datetime.now(), the three commands are buffered
CallSave(t, result) ==
    /\ wPc = "idle"
    /\ wPc' = "queued"
    /\ wCall' = [op |-> "save", task |-> t, result |-> result, at |-> now]
    /\ UNCHANGED <<broker, fileExists, storeVars, celeryMeta, workerVars,
                   lostAfterCore, clientVars, faults, clockVars, nonStoreAux>>

\* delete_result lines 151-157: the three removals are buffered
CallDelete(t) ==
    /\ wPc = "idle"
    /\ wPc' = "queued"
    /\ wCall' = [op |-> "delete", task |-> t, result |-> <<>>, at |-> NoTime]
    /\ UNCHANGED <<broker, fileExists, storeVars, celeryMeta, workerVars,
                   lostAfterCore, clientVars, faults, clockVars, nonStoreAux>>

\* the k-th buffered command of the call, alone
Command(k) ==
    LET t == wCall.task
        r == wCall.result
    IN IF wCall.op = "save"
       THEN CASE k = 1 -> setex_result(t, r) /\ UNCHANGED <<taskKey, createdAt, index>>
              [] k = 2 -> setex_task(t, r, wCall.at)
                          /\ UNCHANGED <<resultKey, resultError, index>>
              [] k = 3 -> sadd_index(t)
                          /\ UNCHANGED <<resultKey, resultError, taskKey, createdAt>>
       ELSE CASE k = 1 -> delete_result_key(t) /\ UNCHANGED <<taskKey, createdAt, index>>
              [] k = 2 -> delete_task_key(t)
                          /\ UNCHANGED <<resultKey, resultError, index>>
              [] k = 3 -> srem_index(t)
                          /\ UNCHANGED <<resultKey, resultError, taskKey, createdAt>>

\* all buffered commands of the call at once
AllCommands ==
    LET t == wCall.task
        r == wCall.result
    IN IF wCall.op = "save"
       THEN setex_result(t, r) /\ setex_task(t, r, wCall.at) /\ sadd_index(t)
       ELSE delete_result_key(t) /\ delete_task_key(t) /\ srem_index(t)

Sent(p) == CASE p = "queued" -> 0 [] p = "sent1" -> 1 [] p = "sent2" -> 2
AfterSend(k) == CASE k = 1 -> "sent1" [] k = 2 -> "sent2" [] k = 3 -> "idle"

\* lines 55 and 158: pipe.execute(); an exception (the store is unreachable)
\* leaves the store as it is and the call returns False
PipeExecute ==
    /\ wPc # "idle"
    /\ \E ok \in Outcomes :
          /\ Charge(ok)
          /\ IF ~ok
             THEN UNCHANGED storeVars /\ wPc' = "idle"
             ELSE IF Transaction
                  THEN AllCommands /\ wPc' = "idle"
                  ELSE Command(Sent(wPc) + 1) /\ wPc' = AfterSend(Sent(wPc) + 1)
    /\ wCall' = IF wPc' = "idle" THEN NoCall ELSE wCall
    /\ UNCHANGED <<broker, fileExists, celeryMeta, workerVars, lostAfterCore,
                   clientVars, clockVars, nonStoreAux>>

NextStore ==
    \/ Tick
    \/ \E t \in Tasks, result \in Payloads : CallSave(t, result)
    \/ \E t \in Tasks : CallDelete(t)
    \/ PipeExecute

SpecStore == Init /\ [][NextStore]_vars

\* ----------------------------------------------------------- the listings
Min(a, b) == IF a < b THEN a ELSE b

\* list(task_ids): the members of the index in the order smembers gives them,
\* which Redis does not define
Perms(S) ==
    {f \in [1..Cardinality(S) -> S] : \A i, j \in DOMAIN f : f[i] = f[j] => i = j}

\* seq[:n]
Take(seq, n) == SubSeq(seq, 1, Min(n, Len(seq)))

\* seq[a:b] of Python, 0-based with b exclusive
Slice(seq, a, b) == SubSeq(seq, a + 1, Min(b, Len(seq)))

\* get_task_metadata: the task metadata of a task id
Metadata(t) == [task_id |-> t, status |-> taskKey[t], created_at |-> createdAt[t]]

\* results.sort(key=created_at, reverse=True): Python's sort is stable, equal
\* keys keep their order
RECURSIVE InsertDesc(_, _)
InsertDesc(m, sorted) ==
    IF sorted = <<>> THEN <<m>>
    ELSE IF Head(sorted).created_at >= m.created_at
         THEN <<Head(sorted)>> \o InsertDesc(m, Tail(sorted))
         ELSE <<m>> \o sorted

RECURSIVE SortDesc(_)
SortDesc(seq) ==
    IF seq = <<>> THEN <<>>
    ELSE InsertDesc(seq[Len(seq)], SortDesc(SubSeq(seq, 1, Len(seq) - 1)))

HasMetadata(t) == taskKey[t] # Absent

\* list_all_results lines 91-109, for the member order ms
list_all_results(ms, limit) ==
    LET ids == SelectSeq(Take(ms, limit), HasMetadata)
    IN SortDesc([i \in DOMAIN ids |-> Metadata(ids[i])])

\* list_results_by_status lines 134-147
list_results_by_status(ms, status, limit) ==
    LET WithStatus(m) == m.status = status
    IN Take(SelectSeq(list_all_results(ms, limit * 2), WithStatus), limit)

\* the status values a request may filter on; "" stands for no filter
StatusFilters == {"", "COMPLETED"}
Pages == {1, 2}
Limits == {1, 2, 101}

\* ImageController.list_results lines 136-153
list_results(ms, page, limit, status) ==
    LET capped == IF limit > 100 THEN 100 ELSE limit
        tasks == IF status # ""
                 THEN list_results_by_status(ms, status, capped * page)
                 ELSE list_all_results(ms, capped * page)
        start_idx == (page - 1) * capped
        end_idx == start_idx + capped
    IN [req |-> <<page, limit, status>>,
        tasks |-> Slice(tasks, start_idx, end_idx),
        total |-> Len(tasks),
        page |-> page,
        limit |-> capped]

ListResults(page, limit, status) ==
    /\ \E ms \in Perms(index) : listed' = list_results(ms, page, limit, status)
    /\ UNCHANGED <<broker, fileExists, storeVars, celeryMeta, workerVars,
                   lostAfterCore, clientVars, faults, clockVars, nonListAux>>

\* a caller of the store saves a payload (the whole call)
StoreSave(t, result) ==
    /\ save_result(t, result, TRUE)
    /\ UNCHANGED <<broker, fileExists, celeryMeta, workerVars, lostAfterCore,
                   clientVars, faults, auxVars>>

NextList ==
    \/ Tick
    \/ \E t \in Tasks, result \in Payloads : StoreSave(t, result)
    \/ \E page \in Pages, limit \in Limits, status \in StatusFilters :
          ListResults(page, limit, status)

SpecList == Init /\ [][NextList]_vars

\* ------------------------------------------- the listing calls of the store
\* created_at is held as the instant datetime.now() gave; its ISO text orders
\* and parses back (datetime.fromisoformat, line 124) to the same instant
Instants == 1..MaxClock
QueryLimits == {1, 2}
PeriodLimits == {1, 2, 1001}
QueryStatuses == {"processing", "COMPLETED"}

\* list_results_by_period lines 111-132
list_results_by_period(ms, start_date, end_date, limit) ==
    LET InPeriod(m) == start_date <= m.created_at /\ m.created_at <= end_date
    IN Take(SelectSeq(list_all_results(ms, limit * 2), InPeriod), limit)

\* ImageController.list_results_by_period lines 172-184
controller_list_results_by_period(ms, start_date, end_date, limit, status) ==
    LET capped == IF limit > 1000 THEN 1000 ELSE limit
        results == list_results_by_period(ms, start_date, end_date, capped)
        WithStatus(r) == r.status = status
    IN IF status # "" THEN SelectSeq(results, WithStatus) ELSE results

Answer(op, status, start, end, limit, tasks) ==
    [op |-> op, status |-> status, start |-> start, end |-> end,
     limit |-> limit, tasks |-> tasks]

\* a listing call reads the store and changes nothing
QueryFrame ==
    /\ UNCHANGED <<broker, fileExists, storeVars, celeryMeta, workerVars,
                   lostAfterCore, clientVars, faults, clockVars, nonQueryAux>>

\* a call of ResultStorage.list_all_results
QueryAll(limit) ==
    /\ queried = NoQuery
    /\ \E ms \in Perms(index) :
          queried' = Answer("all", "", NoTime, NoTime, limit,
                            list_all_results(ms, limit))
    /\ QueryFrame

\* a call of ResultStorage.list_results_by_status
QueryByStatus(status, limit) ==
    /\ queried = NoQuery
    /\ \E ms \in Perms(index) :
          queried' = Answer("status", status, NoTime, NoTime, limit,
                            list_results_by_status(ms, status, limit))
    /\ QueryFrame

\* GET /results with start_date and end_date: a call of
\* ImageController.list_results_by_period
QueryByPeriod(start_date, end_date, limit, status) ==
    /\ queried = NoQuery
    /\ \E ms \in Perms(index) :
          queried' = Answer("period", status, start_date, end_date, limit,
                            controller_list_results_by_period(
                                ms, start_date, end_date, limit, status))
    /\ QueryFrame

\* the caller has read the answer
QueryDone ==
    /\ queried # NoQuery
    /\ queried' = NoQuery
    /\ UNCHANGED <<broker, fileExists, storeVars, celeryMeta, workerVars,
                   lostAfterCore, clientVars, faults, clockVars, nonQueryAux>>

\* the store is filled by save_result calls as time passes; one listing call
\* at a time is made and answered
NextQuery ==
    \/ queried = NoQuery /\ Tick
    \/ queried = NoQuery /\ \E t \in StoreIds, result \in Payloads : StoreSave(t, result)
    \/ \E limit \in QueryLimits : QueryAll(limit)
    \/ \E status \in QueryStatuses, limit \in QueryLimits :
          QueryByStatus(status, limit)
    \/ \E start_date \in Instants, end_date \in Instants,
          limit \in PeriodLimits, status \in {""} \cup QueryStatuses :
          QueryByPeriod(start_date, end_date, limit, status)
    \/ QueryDone

SpecQuery == Init /\ [][NextQuery]_vars

\* ------------------------------------- the QR codes of process_image
\* the truth value of a string or None
Truthy(v) == v \notin {None, ""}
HasKey(rec, key) == key \in DOMAIN rec

\* sequences over S of length at most n
SeqUpTo(S, n) == UNION {[1..k -> S] : k \in 0..n}

\* A detection is at a position (x, y) of its bounding box.  The crop of a QR
\* detection is represented by what decode_multiple_attempts returns for it:
\* the decoded text, or None when every strategy fails.  A direct decode is
\* the position pyzbar reports and the content (qr.data, "" when empty).
Positions == {<<0, 0>>, <<5, 0>>}
\* A bounding box of no width or height gives an empty crop
\* (image[y1:y2, x1:x2]), on which the cv2 calls raise cv2.error.
EmptyCrop == "<empty>"
QrDetections == {d \in [pos : Positions, ladder : {None, "CROP"}, empty : BOOLEAN] :
                    d.empty => d.ladder = None}
DirectCodes == [pos : Positions, content : {"", "DIRECT"}]
Images == [qrs : SeqUpTo(QrDetections, MaxQr),
           direct : SeqUpTo(DirectCodes, MaxQr),
           save : BOOLEAN]

\* _process_results line 141: qr_id = f"QR_{qr_id:03d}", counted from 1 in
\* every image
QrId(i) == <<"QR", i>>

\* detections["qr_codes"] of the image
qr_codes(img) ==
    [i \in DOMAIN img.qrs |-> [qr_id |-> QrId(i), pos |-> img.qrs[i].pos]]

\* get_qr_crops line 207: the file a crop is saved to
crop_path(save_directory, qr_id) == <<save_directory, qr_id, "_crop.jpg">>

\* get_qr_crops lines 183-211: one crop_info per QR detection, the crop under
\* the key "crop"; saved_path only with a save directory
image_slice(qr) == IF qr.empty THEN EmptyCrop ELSE qr.ladder

get_qr_crops(img, save_directory) ==
    [i \in DOMAIN img.qrs |->
        IF save_directory # None
        THEN [qr_id |-> QrId(i), crop |-> image_slice(img.qrs[i]),
              saved_path |-> crop_path(save_directory, QrId(i))]
        ELSE [qr_id |-> QrId(i), crop |-> image_slice(img.qrs[i])]]

\* get_qr_crops lines 202-211: with a save directory every crop goes through
\* cv2.cvtColor and cv2.imwrite; nothing catches what they raise
get_qr_crops_raises(img, save_directory) ==
    save_directory # None /\ \E i \in DOMAIN img.qrs : img.qrs[i].empty

\* process_image lines 142-144: decode_multiple_attempts starts with cv2
\* calls on the crop; nothing catches what they raise
decode_crop_raises(crop_info) ==
    HasKey(crop_info, "crop_array") /\ crop_info.crop_array = EmptyCrop

\* QRDecoder.decode_multiple_attempts: the text of the crop, or None
decode_multiple_attempts(crop_array) == crop_array

\* process_image lines 141-144: the loop over qr_crops_info; a crop_info is
\* decoded when it has a "crop_array"
decode_crop(crop_info) ==
    IF HasKey(crop_info, "crop_array")
    THEN LET qr_content == decode_multiple_attempts(crop_info.crop_array)
         IN [k \in DOMAIN crop_info \cup {"decoded_content"} |->
                IF k = "decoded_content"
                THEN (IF Truthy(qr_content) THEN qr_content ELSE "DECODE_FAILED")
                ELSE crop_info[k]]
    ELSE crop_info

\* _format_qr_codes lines 295-301: direct_qr_map, keyed by position; a later
\* entry replaces an earlier one with the same key
direct_qr_map_get(direct_qr_codes, key) ==
    LET at == {i \in DOMAIN direct_qr_codes : direct_qr_codes[i].pos = key}
    IN IF at = {} THEN None
       ELSE direct_qr_codes[CHOOSE i \in at : \A j \in at : j <= i].content

\* crops_map.get(qr_id, {}) line 305, then crop_info.get("decoded_content")
decoded_content(qr_crops_info, qr_id) ==
    LET at == {i \in DOMAIN qr_crops_info : qr_crops_info[i].qr_id = qr_id}
    IN IF at = {} THEN None
       ELSE LET crop_info == qr_crops_info[CHOOSE i \in at : \A j \in at : j <= i]
            IN IF HasKey(crop_info, "decoded_content")
               THEN crop_info.decoded_content ELSE None

\* _format_qr_codes lines 303-354: content and decode_source of each detection
format_qr_codes(qr_detections, qr_crops_info, direct_qr_codes) ==
    [i \in DOMAIN qr_detections |->
        LET qr == qr_detections[i]
            crop_content == decoded_content(qr_crops_info, qr.qr_id)
            direct_content == direct_qr_map_get(direct_qr_codes, qr.pos)
        IN IF Truthy(crop_content)
           THEN [qr_id |-> qr.qr_id, content |-> crop_content,
                 decode_source |-> "crop"]
           ELSE IF Truthy(direct_content)
           THEN [qr_id |-> qr.qr_id, content |-> direct_content,
                 decode_source |-> "direct"]
           ELSE [qr_id |-> qr.qr_id, content |-> "PENDING_SCAN",
                 decode_source |-> "none"]]

QrFrame ==
    UNCHANGED <<broker, fileExists, storeVars, celeryMeta, workerVars,
                lostAfterCore, clientVars, faults, nonQrAux>>

\* process_image lines 109-127: the image is loaded, preprocessed and run
\* through the detector
Detect(img) ==
    /\ qrPc = "idle"
    /\ image' = img
    /\ qrCrops' = <<>>
    /\ qrPc' = IF img.qrs # <<>> THEN "crops" ELSE "format"
    /\ UNCHANGED qrOut
    /\ QrFrame

\* lines 131-137: self.detector.get_qr_crops(...)
GetQrCrops ==
    /\ qrPc = "crops"
    /\ LET save_directory == IF image.save THEN "qr_crops" ELSE None
       IN  IF get_qr_crops_raises(image, save_directory)
           THEN qrPc' = "raised" /\ UNCHANGED qrCrops
           ELSE /\ qrCrops' = get_qr_crops(image, save_directory)
                /\ qrPc' = "decode"
    /\ UNCHANGED <<image, qrOut>>
    /\ QrFrame

\* lines 140-144: the crops are decoded
DecodeCrops ==
    /\ qrPc = "decode"
    /\ IF \E i \in DOMAIN qrCrops : decode_crop_raises(qrCrops[i])
       THEN qrPc' = "raised" /\ UNCHANGED qrCrops
       ELSE /\ qrCrops' = [i \in DOMAIN qrCrops |-> decode_crop(qrCrops[i])]
            /\ qrPc' = "format"
    /\ UNCHANGED <<image, qrOut>>
    /\ QrFrame

\* lines 147 and 163: the direct decode of the whole image, and
\* result["qr_codes"]
FormatQrCodes ==
    /\ qrPc = "format"
    /\ qrOut' = format_qr_codes(qr_codes(image), qrCrops, image.direct)
    /\ qrPc' = "idle"
    /\ UNCHANGED <<image, qrCrops>>
    /\ QrFrame


\* the exception leaves process_image and process_image_core: no result is
\* returned, the task goes to its except block (line 131)
QrRaised ==
    /\ qrPc = "raised"
    /\ qrPc' = "idle"
    /\ image' = NoImage
    /\ qrCrops' = <<>>
    /\ qrOut' = <<>>
    /\ QrFrame

NextQr ==
    \/ \E img \in Images : Detect(img)
    \/ GetQrCrops
    \/ DecodeCrops
    \/ FormatQrCodes
    \/ QrRaised

SpecQr == Init /\ [][NextQr]_vars

\* ------------------------------- the bounding boxes of process_image
\* ImagePreprocessor.__init__ line 17: target_size (width, height)
target_size == <<640, 640>>

\* the shapes (height, width) of uploaded images
OriginalShapes == {<<100, 100>>, <<240, 320>>, <<640, 640>>, <<960, 1280>>}

\* resize_image lines 72-80: scale = min(target_w / w, target_h / h), held as
\* the fraction <<numerator, denominator>>
scale(shape) ==
    LET h == shape[1]
        w == shape[2]
    IN IF target_size[1] * h <= target_size[2] * w
       THEN <<target_size[1], w>> ELSE <<target_size[2], h>>

\* preprocess lines 139-165: the image is resized and padded to target_size
preprocess(shape) ==
    [original_shape |-> shape, scale_factor |-> scale(shape),
     processed_shape |-> <<target_size[2], target_size[1]>>]

\* the boxes (x1, y1, x2, y2) the model can report on an image of that shape
Grid(n) == {0, 100, n \div 2, n}
XYXY(shape) ==
    {b \in [x1 : Grid(shape[2]), y1 : Grid(shape[1]),
            x2 : Grid(shape[2]), y2 : Grid(shape[1])] : b.x1 < b.x2 /\ b.y1 < b.y2}

\* _process_results lines 124-129: bounding_box of a detection
bounding_box(b) == [x |-> b.x1, y |-> b.y1, width |-> b.x2 - b.x1, height |-> b.y2 - b.y1]

\* _process_results lines 118-147: the detection of one box, a QR code or an
\* object by its class name
process_results(b, is_qr) ==
    IF is_qr
    THEN [detected_objects |-> <<>>, qr_codes |-> <<bounding_box(b)>>]
    ELSE [detected_objects |-> <<bounding_box(b)>>, qr_codes |-> <<>>]

\* _format_objects lines 255-270 and _format_qr_codes lines 326-340: the
\* bounding_box of a detection is copied field by field
format_bounding_box(bbox) ==
    [x |-> bbox.x, y |-> bbox.y, width |-> bbox.width, height |-> bbox.height]

BoxFrame ==
    UNCHANGED <<broker, fileExists, storeVars, celeryMeta, workerVars,
                lostAfterCore, clientVars, faults, nonBoxAux>>

\* process_image lines 109-120: original_image is loaded and preprocessed
Preprocess(shape) ==
    /\ boxPc = "idle"
    /\ meta' = preprocess(shape)
    /\ detections' = NoDetections
    /\ boxPc' = "detect"
    /\ UNCHANGED payload
    /\ BoxFrame

\* lines 123-127: self.detector.detect(processed_image, ...)
DetectBoxes(b, is_qr) ==
    /\ boxPc = "detect"
    /\ detections' = process_results(b, is_qr)
    /\ boxPc' = "result"
    /\ UNCHANGED <<meta, payload>>
    /\ BoxFrame

\* lines 153-172: result = {scan_metadata: {image_resolution: original
\* width x height}, detected_objects: ..., qr_codes: ...}
BuildResult ==
    /\ boxPc = "result"
    /\ payload' =
          [image_resolution |-> <<meta.original_shape[2], meta.original_shape[1]>>,
           detected_objects |->
              [i \in DOMAIN detections.detected_objects |->
                  format_bounding_box(detections.detected_objects[i])],
           qr_codes |->
              [i \in DOMAIN detections.qr_codes |->
                  format_bounding_box(detections.qr_codes[i])]]
    /\ boxPc' = "idle"
    /\ UNCHANGED <<meta, detections>>
    /\ BoxFrame

NextBox ==
    \/ \E shape \in OriginalShapes : Preprocess(shape)
    \/ \E b \in XYXY(meta.processed_shape), is_qr \in BOOLEAN : DetectBoxes(b, is_qr)
    \/ BuildResult

SpecBox == Init /\ [][NextBox]_vars

\* ----------------------------- detection ids and crop files of the jobs
\* the task_metadata upload_and_process passes to the task (lines 70-78); it
\* has no key "config"
TaskMetadata == {[original_filename |-> "a.jpg", content_type |-> "image/jpeg"]}

\* prepare_processing_config lines 34-38
prepare_processing_config(task_metadata) ==
    IF HasKey(task_metadata, "config")
    THEN [k \in DOMAIN DEFAULT_CONFIG \cup DOMAIN task_metadata.config |->
             IF k \in DOMAIN task_metadata.config
             THEN task_metadata.config[k] ELSE DEFAULT_CONFIG[k]]
    ELSE DEFAULT_CONFIG

\* process_image_core line 92: save_qr_crops = config.get("save_crops", False)
save_qr_crops(config) == IF HasKey(config, "save_crops") THEN config.save_crops ELSE FALSE

\* _process_results line 146: object_id = f"OBJ_{object_id:03d}", counted
\* from 1 in every image
ObjId(i) == <<"OBJ", i>>

\* _process_results lines 115-147: the ids of the detections of one image
\* with n_obj objects and n_qr QR codes
detection_ids(n_obj, n_qr) ==
    [i \in 1..n_obj |-> ObjId(i)] \o [i \in 1..n_qr |-> QrId(i)]

IsQrId(id) == id[1] = "QR"

IdFrame ==
    UNCHANGED <<broker, fileExists, storeVars, celeryMeta, workerVars,
                lostAfterCore, clientVars, faults, nonIdAux>>

\* process_image lines 123-127 in the job of task t: the detector runs and
\* numbers its detections.  Jobs of different tasks run in different worker
\* processes and interleave.
DetectIds(t, n_obj, n_qr) ==
    /\ idPc[t] = "queued"
    /\ detIds' = [detIds EXCEPT ![t] = detection_ids(n_obj, n_qr)]
    /\ idPc' = [idPc EXCEPT ![t] = "crops"]
    /\ UNCHANGED cropFiles
    /\ IdFrame

\* process_image lines 131-137 in the job of task t: get_qr_crops writes one
\* file per QR detection when it is given a save directory
SaveCrops(t, task_metadata) ==
    /\ idPc[t] = "crops"
    /\ LET config == prepare_processing_config(task_metadata)
           save_directory == IF save_qr_crops(config)
                             THEN config.qr_crops_dir ELSE None
       IN cropFiles' = cropFiles \cup
             {[path |-> crop_path(save_directory, detIds[t][i]), task |-> t, det |-> i] :
                 i \in {j \in DOMAIN detIds[t] :
                           IsQrId(detIds[t][j]) /\ save_directory # None}}
    /\ idPc' = [idPc EXCEPT ![t] = "done"]
    /\ UNCHANGED detIds
    /\ IdFrame

NextIds ==
    \/ \E t \in Tasks, n_obj \in 0..MaxObjects, n_qr \in 0..MaxQr :
          DetectIds(t, n_obj, n_qr)
    \/ \E t \in Tasks, task_metadata \in TaskMetadata : SaveCrops(t, task_metadata)

SpecIds == Init /\ [][NextIds]_vars

\* ------------------------------------------------- format_api_response
\* dict.get(key, default); values of a payload are held as text
Get(dict, key, default) == IF key \in DOMAIN dict THEN dict[key] ELSE default

\* the entries of result["detected_objects"] and result["qr_codes"] that
\* process_image builds (_format_objects, _format_qr_codes)
BoxValues == {[x |-> "10", y |-> "20", width |-> "30", height |-> "40"]}
ObjectEntries ==
    [object_id : {"OBJ_001"}, class : {"box", "pallet"},
     confidence : {"0.9", "0.95"}, bounding_box : BoxValues]
QrEntries ==
    [qr_id : {"QR_001"}, content : {"PENDING_SCAN", "DIRECT"},
     decode_source : {"none", "direct"}, position : {[x |-> "10", y |-> "20"]},
     confidence : {"0.9"}, bounding_box : BoxValues,
     crop_info : {[saved |-> "False"]}]
ScanMetadata ==
    [timestamp : {"t1"}, image_resolution : {"640x480", "100x100"},
     processing_time_ms : {"150"}, image_source : {"uploads/a.jpg"},
     preprocessing : {[minimal_mode |-> "False"]}]

\* process_image lines 153-203 followed by create_success_result lines 47-54
SuccessPayloads ==
    [scan_metadata : ScanMetadata,
     detected_objects : SeqUpTo(ObjectEntries, MaxObjects),
     qr_codes : SeqUpTo(QrEntries, MaxQr),
     summary : {[total_detections |-> "1"]},
     processed_image : {[saved |-> "False"]},
     source_file_removed : {"True"},
     task_info : {[task_id |-> "1"]},
     status : {"COMPLETED"}]

\* the payloads save_result is given: create_initial_result,
\* create_success_result, create_error_result
StoredPayloads ==
    SuccessPayloads
    \cup {[status |-> "processing", task_info |-> [task_id |-> "1"]],
          [status |-> "failed", task_info |-> [task_id |-> "1"],
           error |-> "Erro no processamento da imagem"]}

\* lines 25-36: one formatted object
format_object(obj) ==
    [object_id |-> Get(obj, "object_id", None),
     class |-> Get(obj, "class", None),
     confidence |-> Get(obj, "confidence", None),
     bounding_box |->
        [x |-> Get(Get(obj, "bounding_box", EmptyDict), "x", None),
         y |-> Get(Get(obj, "bounding_box", EmptyDict), "y", None),
         width |-> Get(Get(obj, "bounding_box", EmptyDict), "width", None),
         height |-> Get(Get(obj, "bounding_box", EmptyDict), "height", None)]]

\* a formatter that reads the position of a QR code from its bounding_box
format_qr_from_bounding_box(qr) ==
    [qr_id |-> Get(qr, "qr_id", None),
     content |-> Get(qr, "content", None),
     position |-> [x |-> Get(Get(qr, "bounding_box", EmptyDict), "x", None),
                   y |-> Get(Get(qr, "bounding_box", EmptyDict), "y", None)],
     confidence |-> Get(qr, "confidence", None)]

\* lines 41-50: one formatted QR code
format_qr(qr) ==
    [qr_id |-> Get(qr, "qr_id", None),
     content |-> Get(qr, "content", None),
     position |-> [x |-> Get(Get(qr, "position", EmptyDict), "x", None),
                   y |-> Get(Get(qr, "position", EmptyDict), "y", None)],
     confidence |-> Get(qr, "confidence", None)]

\* format_api_response lines 9-68
format_api_response(result) ==
    IF result = EmptyDict \/ ~HasKey(result, "scan_metadata")
    THEN result
    ELSE LET objects == Get(result, "detected_objects", <<>>)
             qrs == Get(result, "qr_codes", <<>>)
             scan_metadata == Get(result, "scan_metadata", EmptyDict)
         IN [scan_metadata |->
                [timestamp |-> Get(scan_metadata, "timestamp", None),
                 image_resolution |-> Get(scan_metadata, "image_resolution", None),
                 processing_time_ms |-> Get(scan_metadata, "processing_time_ms", None)],
             detected_objects |-> [i \in DOMAIN objects |-> format_object(objects[i])],
             qr_codes |-> [i \in DOMAIN qrs |-> format_qr(qrs[i])]]

FmtFrame ==
    UNCHANGED <<broker, fileExists, storeVars, celeryMeta, workerVars,
                lostAfterCore, clientVars, faults, nonFmtAux>>

\* a caller reads a stored payload
LoadPayload(p) ==
    /\ fmtPc = "idle"
    /\ stored' = p
    /\ fmtPc' = "loaded"
    /\ UNCHANGED <<given, out1, out2>>
    /\ FmtFrame

\* format_api_response(p): the function builds new dicts and lists and
\* assigns to nothing reachable from its argument
FormatOnce ==
    /\ fmtPc = "loaded"
    /\ given' = stored
    /\ out1' = format_api_response(stored)
    /\ fmtPc' = "once"
    /\ UNCHANGED <<stored, out2>>
    /\ FmtFrame

\* format_api_response of the formatted payload
FormatTwice ==
    /\ fmtPc = "once"
    /\ out2' = format_api_response(out1)
    /\ fmtPc' = "twice"
    /\ UNCHANGED <<stored, given, out1>>
    /\ FmtFrame

\* the caller returns and drops what it held
FmtDone ==
    /\ fmtPc = "twice"
    /\ fmtPc' = "idle"
    /\ stored' = EmptyDict
    /\ given' = EmptyDict
    /\ out1' = EmptyDict
    /\ out2' = EmptyDict
    /\ FmtFrame

NextFmt ==
    \/ \E p \in StoredPayloads : LoadPayload(p)
    \/ FormatOnce
    \/ FormatTwice
    \/ FmtDone

SpecFmt == Init /\ [][NextFmt]_vars

\* ----------------------------------------- the detector of a worker process
\* process_image_core line 89 calls create_vision_processor(model_path, config)
\* for every job; VisionProcessor.__init__ line 81 constructs a new
\* YOLODetector(model_path, confidence_threshold), whose __init__ calls
\* _load_model, i.e. YOLO(model_path).
Keys == {<<"best.pt", 90>>, <<"best.pt", 50>>, <<"other.pt", 90>>}

CreateProcessor(key) ==
    /\ Len(jobKeys) < MaxJobs
    /\ jobKeys' = Append(jobKeys, key)
    /\ loads' = loads + 1
    /\ detector' = [id |-> loads + 1, key |-> key]
    /\ UNCHANGED <<broker, fileExists, storeVars, celeryMeta, workerVars,
                   lostAfterCore, clientVars, faults, nonDetectorAux>>

NextDetector == \E key \in Keys : CreateProcessor(key)

SpecDetector == Init /\ [][NextDetector]_vars

\* celery_config.py line 25: task_time_limit=300 is Celery's hard limit (no
\* task_soft_time_limit is set).  When a job runs longer, the pool kills the
\* child process that executes it, so no further statement of the task body
\* runs, the except block included; the parent stores FAILURE
\* (TimeLimitExceeded) in the result backend and, task_acks_late with the
\* default acks_on_failure_or_timeout, acknowledges the message.
task_time_limit == 300

TimeLimit(w) ==
    /\ pc[w] # "idle"
    /\ MayFail
    /\ Charge(FALSE)
    /\ update_state(job[w], "FAILURE")
    /\ broker' = [broker EXCEPT ![job[w]] = IF TaskAcksLate THEN "acked" ELSE @]
    /\ job' = [job EXCEPT ![w] = NoJob]
    /\ saved' = [saved EXCEPT ![w] = "none"]
    /\ exc' = [exc EXCEPT ![w] = NoExc]
    /\ Goto(w, "idle")
    /\ UNCHANGED <<fileExists, storeVars, lostAfterCore, clientVars, auxVars>>

\* ------------------------------------------------ ImageController.get_result
\* A client polls GET /results/{task_id} with the task id it got from its
\* upload.  Tasks do not interact, so it is the client of the first upload.
getTask == CHOOSE t \in Tasks : \A u \in Tasks : t <= u

StartGet ==
    /\ getPc = "idle"
    /\ broker[getTask] # "none"
    /\ getPc' = "read_store"
    /\ UNCHANGED <<broker, fileExists, storeVars, celeryMeta, workerVars,
                   lostAfterCore, resp, faults,
                   auxVars>>

\* line 96: result = self.result_storage.get_result(task_id); line 117:
\* return result (200) when it is present.
StoreResponse(t) == [code |-> 200, body |-> get_result(t)]

GetReadStore ==
    /\ getPc = "read_store"
    /\ IF get_result(getTask) # Absent
       THEN /\ resp' = StoreResponse(getTask)
            /\ getPc' = "idle"
       ELSE /\ getPc' = "read_bus"
            /\ UNCHANGED resp
    /\ UNCHANGED <<broker, fileExists, storeVars, celeryMeta, workerVars,
                   lostAfterCore, faults,
                   auxVars>>

\* a handler that also answers 202 for the state task_track_started reports
StatusForState_started(state) ==
    IF state \in {"PENDING", "STARTED", "PROCESSING"} THEN 202 ELSE 404

\* lines 98-115: AsyncResult(task_id).state decides 202 or 404.
StatusForState(state) == IF state \in {"PENDING", "PROCESSING"} THEN 202 ELSE 404

GetReadBus ==
    /\ getPc = "read_bus"
    /\ resp' = [code |-> StatusForState(BusState(getTask)), body |-> "detail"]
    /\ getPc' = "idle"
    /\ UNCHANGED <<broker, fileExists, storeVars, celeryMeta, workerVars,
                   lostAfterCore, faults,
                   auxVars>>

Next ==
    \/ \E t \in Tasks : Upload(t)
    \/ \E w \in Workers, t \in Tasks : Deliver(w, t)
    \/ \E w \in Workers : SaveInitial(w)
    \/ \E w \in Workers : EmitProcessing(w)
    \/ \E w \in Workers : Validate(w)
    \/ \E w \in Workers : Core(w)
    \/ \E w \in Workers : HandleSave(w)
    \/ \E w \in Workers : HandleClear(w)
    \/ \E w \in Workers : EmitSuccess(w)
    \/ \E w \in Workers : EmitFailure(w)
    \/ \E w \in Workers : ExcSave(w)
    \/ \E w \in Workers : ExcClear(w)
    \/ \E w \in Workers : Return(w)
    \/ \E w \in Workers : Raise(w)
    \/ \E w \in Workers : WorkerLost(w)
    \/ StartGet
    \/ GetReadStore
    \/ GetReadBus

Spec == Init /\ [][Next]_vars

\* The uploads and the jobs alone, without the polling client.
NextJobs ==
    \/ \E t \in Tasks : Upload(t)
    \/ \E w \in Workers, t \in Tasks : Deliver(w, t)
    \/ \E w \in Workers : SaveInitial(w)
    \/ \E w \in Workers : EmitProcessing(w)
    \/ \E w \in Workers : Validate(w)
    \/ \E w \in Workers : Core(w)
    \/ \E w \in Workers : HandleSave(w)
    \/ \E w \in Workers : HandleClear(w)
    \/ \E w \in Workers : EmitSuccess(w)
    \/ \E w \in Workers : EmitFailure(w)
    \/ \E w \in Workers : ExcSave(w)
    \/ \E w \in Workers : ExcClear(w)
    \/ \E w \in Workers : Return(w)
    \/ \E w \in Workers : Raise(w)
    \/ \E w \in Workers : WorkerLost(w)

SpecJobs == Init /\ [][NextJobs]_vars

\* The jobs and the polling client, with jobs that may run into the time
\* limit.
NextTimeLimit ==
    \/ Next
    \/ \E w \in Workers : TimeLimit(w)

SpecTimeLimit == Init /\ [][NextTimeLimit]_vars

\* The job of the polled task alone, with its worker, worker loss, the time
\* limit and the polling client.
NextGet ==
    \/ Upload(getTask)
    \/ \E w \in Workers : Deliver(w, getTask)
    \/ \E w \in Workers : SaveInitial(w)
    \/ \E w \in Workers : EmitProcessing(w)
    \/ \E w \in Workers : Validate(w)
    \/ \E w \in Workers : Core(w)
    \/ \E w \in Workers : HandleSave(w)
    \/ \E w \in Workers : HandleClear(w)
    \/ \E w \in Workers : EmitSuccess(w)
    \/ \E w \in Workers : EmitFailure(w)
    \/ \E w \in Workers : ExcSave(w)
    \/ \E w \in Workers : ExcClear(w)
    \/ \E w \in Workers : Return(w)
    \/ \E w \in Workers : Raise(w)
    \/ \E w \in Workers : WorkerLost(w)
    \/ \E w \in Workers : TimeLimit(w)
    \/ StartGet
    \/ GetReadStore
    \/ GetReadBus

SpecGet == Init /\ [][NextGet]_vars

\* The jobs with the broker's reservations: a worker reserves messages, then
\* starts them one at a time.
NextPrefetch ==
    \/ \E t \in Tasks : Upload(t)
    \/ \E w \in Workers, t \in Tasks : Reserve(w, t)
    \/ \E w \in Workers, t \in Tasks : Start(w, t)
    \/ \E w \in Workers : SaveInitial(w)
    \/ \E w \in Workers : EmitProcessing(w)
    \/ \E w \in Workers : Validate(w)
    \/ \E w \in Workers : Core(w)
    \/ \E w \in Workers : HandleSave(w)
    \/ \E w \in Workers : HandleClear(w)
    \/ \E w \in Workers : EmitSuccess(w)
    \/ \E w \in Workers : EmitFailure(w)
    \/ \E w \in Workers : ExcSave(w)
    \/ \E w \in Workers : ExcClear(w)
    \/ \E w \in Workers : Return(w)
    \/ \E w \in Workers : Raise(w)

SpecPrefetch == Init /\ [][NextPrefetch]_vars

\* The upload handler statement by statement, with the workers up to their
\* file check (validate_image_path).
NextUpload ==
    \/ \E ct \in ContentTypes, fn \in Suffixes, size \in Sizes : UploadCheck(ct, fn, size)
    \/ UploadWrite
    \/ UploadEnqueue
    \/ \E w \in Workers, t \in Tasks : Deliver(w, t)
    \/ \E w \in Workers : SaveInitial(w)
    \/ \E w \in Workers : EmitProcessing(w)
    \/ \E w \in Workers : Validate(w)

SpecUpload == Init /\ [][NextUpload]_vars


\* ------------------------------------- executions over several processes
\* celery_config.py lines 18-34: the queue is consumed by the processes of a
\* prefork pool (and of any further worker), task_acks_late = True.  The
\* broker hands a message to one consumer and keeps it unacknowledged; it
\* puts the message back only when that consumer is gone.  An execution is
\* a task, the number of the delivery that started it, and the number of
\* rows it has written (line 104, then line 121 or 147).
ExecFrame ==
    UNCHANGED <<broker, fileExists, storeVars, celeryMeta, workerVars,
                lostAfterCore, clientVars, nonExecAux>>

\* upload_and_process line 70: process_image_task.delay(...)
ExecPublish(t) ==
    /\ qmsg[t] = "none"
    /\ qmsg' = [qmsg EXCEPT ![t] = "queued"]
    /\ UNCHANGED <<running, deliveries, writers, faults>>
    /\ ExecFrame

\* a free process receives a queued message; acks_late leaves it unacked
ExecConsume(p, t) ==
    /\ running[p] = NoExec
    /\ qmsg[t] = "queued"
    /\ qmsg' = [qmsg EXCEPT ![t] = "unacked"]
    /\ deliveries' = [deliveries EXCEPT ![t] = @ + 1]
    /\ running' = [running EXCEPT ![p] =
                      [task |-> t, delivery |-> deliveries[t] + 1, rows |-> 0]]
    /\ UNCHANGED <<writers, faults>>
    /\ ExecFrame

\* lines 104 and 121 / 147: the execution writes the rows of its task
ExecWrite(p) ==
    /\ running[p] # NoExec
    /\ running[p].rows < RowsPerJob
    /\ running' = [running EXCEPT ![p].rows = @ + 1]
    /\ writers' = [writers EXCEPT ![running[p].task] =
                      Append(@, running[p].delivery)]
    /\ UNCHANGED <<qmsg, deliveries, faults>>
    /\ ExecFrame

\* lines 129 / 151: the body returned or raised; the message is acknowledged
ExecAck(p) ==
    /\ running[p] # NoExec
    /\ running[p].rows = RowsPerJob
    /\ qmsg' = [qmsg EXCEPT ![running[p].task] = "acked"]
    /\ running' = [running EXCEPT ![p] = NoExec]
    /\ UNCHANGED <<deliveries, writers, faults>>
    /\ ExecFrame


\* the message goes back to the queue while the execution keeps running
ExecLost_still_running(p) ==
    /\ running[p] # NoExec
    /\ MayFail
    /\ Charge(FALSE)
    /\ qmsg' = [qmsg EXCEPT ![running[p].task] = "queued"]
    /\ UNCHANGED <<running, deliveries, writers>>
    /\ ExecFrame

\* the process is lost with its worker: its execution ends with it and the
\* unacknowledged message goes back to the queue
ExecLost(p) ==
    /\ running[p] # NoExec
    /\ MayFail
    /\ Charge(FALSE)
    /\ qmsg' = [qmsg EXCEPT ![running[p].task] = "queued"]
    /\ running' = [running EXCEPT ![p] = NoExec]
    /\ UNCHANGED <<deliveries, writers>>
    /\ ExecFrame

\* task_time_limit: the process is killed and the message acknowledged
ExecKill(p) ==
    /\ running[p] # NoExec
    /\ MayFail
    /\ Charge(FALSE)
    /\ qmsg' = [qmsg EXCEPT ![running[p].task] =
                  IF TaskAcksLate THEN "acked" ELSE @]
    /\ running' = [running EXCEPT ![p] = NoExec]
    /\ UNCHANGED <<deliveries, writers>>
    /\ ExecFrame

NextExec ==
    \/ \E t \in Tasks : ExecPublish(t)
    \/ \E p \in Procs, t \in Tasks : ExecConsume(p, t)
    \/ \E p \in Procs : ExecWrite(p)
    \/ \E p \in Procs : ExecAck(p)
    \/ \E p \in Procs : ExecLost(p)
    \/ \E p \in Procs : ExecKill(p)

SpecExec == Init /\ [][NextExec]_vars


\* ------------------------------------------- QRDecoder.decode_multiple_attempts
\* qr_decoder.py lines 289-377.  Every attempt is decode_qr_from_crop on one
\* version of the crop, in this order: the original (306), the three
\* versions of _apply_all_preprocessing_techniques (317-323), the enhanced
\* crop (326-330), the scales 1.5, 2.0, 2.5, 0.8 (333-349), the rotations of
\* the original (352-357), the rotations of each processed version
\* (360-366), the thresholds 100, 150, 200 (369-374).
Ladder ==
    <<"original",
      "processed_v1", "processed_v2", "processed_v3",
      "enhanced",
      "scale_1.5", "scale_2.0", "scale_2.5", "scale_0.8",
      "rotation_90", "rotation_180", "rotation_270",
      "processed_v1_rotation_90", "processed_v1_rotation_180",
      "processed_v1_rotation_270",
      "processed_v2_rotation_90", "processed_v2_rotation_180",
      "processed_v2_rotation_270",
      "processed_v3_rotation_90", "processed_v3_rotation_180",
      "processed_v3_rotation_270",
      "threshold_100", "threshold_150", "threshold_200">>

\* the crops: a crop is told by the attempts that read a code from it
Crops == {S \in SUBSET {Ladder[i] : i \in DOMAIN Ladder} :
             Cardinality(S) <= MaxDecodable}

\* decode_qr_from_crop lines 88-127 on the version of the crop that attempt
\* a builds: the content read from that version (not empty, line 121), or
\* None.  Versions may read differently: the content is named after the
\* version it was read from.
decode_qr_from_crop(a, crop) == IF a \in crop THEN a ELSE None

LadderFrame ==
    UNCHANGED <<broker, fileExists, storeVars, celeryMeta, workerVars,
                lostAfterCore, clientVars, faults, nonLadderAux>>

\* process_image line 146 calls decode_multiple_attempts on a crop
LadderCall(crop) ==
    /\ ladPc = "idle"
    /\ ladPc' = "running"
    /\ decodable' = crop
    /\ attempts' = <<>>
    /\ decoded' = None
    /\ LadderFrame


\* an attempt that keeps its result and goes on down the ladder
LadderAttempt_no_return ==
    /\ ladPc = "running"
    /\ Len(attempts) < Len(Ladder)
    /\ LET a == Ladder[Len(attempts) + 1]
           result == decode_qr_from_crop(a, decodable)
       IN  /\ attempts' = Append(attempts, a)
           /\ IF Truthy(result)
              THEN decoded' = result /\ UNCHANGED ladPc
              ELSE UNCHANGED <<decoded, ladPc>>
    /\ UNCHANGED decodable
    /\ LadderFrame

\* the next attempt: result = self.decode_qr_from_crop(...);
\* if result: return result
LadderAttempt ==
    /\ ladPc = "running"
    /\ Len(attempts) < Len(Ladder)
    /\ LET a == Ladder[Len(attempts) + 1]
           result == decode_qr_from_crop(a, decodable)
       IN  /\ attempts' = Append(attempts, a)
           /\ IF Truthy(result)
              THEN decoded' = result /\ ladPc' = "returned"
              ELSE UNCHANGED <<decoded, ladPc>>
    /\ UNCHANGED decodable
    /\ LadderFrame

\* line 377: return None
LadderExhausted ==
    /\ ladPc = "running"
    /\ Len(attempts) = Len(Ladder)
    /\ decoded' = None
    /\ ladPc' = "returned"
    /\ UNCHANGED <<decodable, attempts>>
    /\ LadderFrame

\* the caller goes on with the next crop
LadderDone ==
    /\ ladPc = "returned"
    /\ ladPc' = "idle"
    /\ decodable' = {}
    /\ attempts' = <<>>
    /\ decoded' = None
    /\ LadderFrame

NextLadder ==
    \/ \E crop \in Crops : LadderCall(crop)
    \/ LadderAttempt
    \/ LadderExhausted
    \/ LadderDone

SpecLadder == Init /\ [][NextLadder]_vars


\* ------------------------------------------------ jobs under fairness
\* A statement of process_image_task executed while the store and the result
\* backend are reachable: no call fails.
JobStep(w) ==
    /\ \/ SaveInitial(w)
       \/ EmitProcessing(w)
       \/ Validate(w)
       \/ Core(w)
       \/ HandleSave(w)
       \/ HandleClear(w)
       \/ EmitSuccess(w)
       \/ EmitFailure(w)
       \/ ExcSave(w)
       \/ ExcClear(w)
       \/ Return(w)
       \/ Raise(w)
    /\ faults' = faults

NextLive ==
    \/ \E t \in Tasks : Upload(t)
    \/ \E w \in Workers, t \in Tasks : Deliver(w, t)
    \/ \E w \in Workers : JobStep(w)
    \/ \E w \in Workers : WorkerLost(w)
    \/ \E w \in Workers : TimeLimit(w)

\* The worker keeps taking queued jobs and keeps executing the job it has;
\* uploads, worker loss and the time limit may or may not happen.
Fairness ==
    /\ WF_vars(\E w \in Workers, t \in Tasks : Deliver(w, t))
    /\ \A w \in Workers : WF_vars(JobStep(w))

SpecLive == Init /\ [][NextLive]_vars /\ Fairness


\* -------------------------- prepare_processing_config, job after job
\* the "config" entries a caller of the task may put into task_metadata
ConfigOverrides ==
    {[confidence_threshold |-> 70],
     [save_crops |-> TRUE],
     [confidence_threshold |-> 70, save_crops |-> TRUE],
     [preprocessing_config |-> [target_size |-> <<320, 320>>, normalize |-> FALSE,
                                enhance_contrast |-> TRUE]]}
JobMetadata ==
    TaskMetadata \cup {[original_filename |-> "a.jpg", config |-> c] :
                         c \in ConfigOverrides}

\* dict.update(other) on the top-level keys of d
dict_update(d, other) ==
    [k \in DOMAIN d \cup DOMAIN other |-> IF k \in DOMAIN other THEN other[k] ELSE d[k]]

ConfigFrame ==
    UNCHANGED <<broker, fileExists, storeVars, celeryMeta, workerVars,
                lostAfterCore, clientVars, faults, nonConfigAux>>


\* config = DEFAULT_CONFIG without the copy: update writes to the module's dict
PrepareConfig_no_copy(task_metadata) ==
    /\ Len(handled) < MaxJobs
    /\ LET config == defaultConfig
       IN  /\ jobConfig' = IF HasKey(task_metadata, "config")
                           THEN dict_update(config, task_metadata.config)
                           ELSE config
           /\ defaultConfig' = jobConfig'
    /\ handled' = Append(handled, task_metadata)
    /\ ConfigFrame

\* process_image_task line 115 in the next job of the process:
\* config = DEFAULT_CONFIG.copy() is a new dict, config.update(...) writes
\* to the copy; the nested preprocessing_config is shared with
\* DEFAULT_CONFIG, and update replaces the entry of the copy, it does not
\* write into the shared dict.
PrepareConfig(task_metadata) ==
    /\ Len(handled) < MaxJobs
    /\ LET config == defaultConfig
       IN  /\ jobConfig' = IF HasKey(task_metadata, "config")
                           THEN dict_update(config, task_metadata.config)
                           ELSE config
           /\ defaultConfig' = defaultConfig
    /\ handled' = Append(handled, task_metadata)
    /\ ConfigFrame

NextConfig == \E task_metadata \in JobMetadata : PrepareConfig(task_metadata)

SpecConfig == Init /\ [][NextConfig]_vars


\* ------------------------------------------------- validate_coordinates
\* coordinate_utils.py lines 112-147.  The values of a bbox may be floats
\* (the function ends with int(...)): they are held in fractions of a pixel,
\* Resolution to the pixel.  An image shape is (height, width) in pixels.
Px(n) == n * Resolution
BoxCoords == (0 - Resolution)..Px(MaxSide + 1)
Boxes == [x : BoxCoords, y : BoxCoords, width : BoxCoords, height : BoxCoords]
ImageShapes == (1..MaxSide) \X (1..MaxSide)

max(a, b) == IF a >= b THEN a ELSE b
min(a, b) == IF a <= b THEN a ELSE b

\* Python's int() of a float: truncation toward zero; the result is in pixels
int(v) == IF v >= 0 THEN v \div Resolution ELSE 0 - ((0 - v) \div Resolution)



\* x and y clamped to width and height instead of width - 1 and height - 1
validate_coordinates_clamp_to_size(bbox, image_shape) ==
    LET height == Px(image_shape[1])
        width == Px(image_shape[2])
        x == max(0, min(bbox.x, width))
        y == max(0, min(bbox.y, height))
        max_width == width - x
        max_height == height - y
        width_bbox == max(Px(1), min(bbox.width, max_width))
        height_bbox == max(Px(1), min(bbox.height, max_height))
    IN [x |-> int(x), y |-> int(y),
        width |-> int(width_bbox), height |-> int(height_bbox)]

\* lines 126-147
validate_coordinates(bbox, image_shape) ==
    LET height == Px(image_shape[1])
        width == Px(image_shape[2])
        x == max(0, min(bbox.x, width - Px(1)))
        y == max(0, min(bbox.y, height - Px(1)))
        max_width == width - x
        max_height == height - y
        width_bbox == max(Px(1), min(bbox.width, max_width))
        height_bbox == max(Px(1), min(bbox.height, max_height))
    IN [x |-> int(x), y |-> int(y),
        width |-> int(width_bbox), height |-> int(height_bbox)]

CoordFrame ==
    UNCHANGED <<broker, fileExists, storeVars, celeryMeta, workerVars,
                lostAfterCore, clientVars, faults, nonCoordAux>>

\* a caller validates a bounding box against an image shape
ValidateCall(bbox, image_shape) ==
    /\ vcPc = "idle"
    /\ vcBox' = bbox
    /\ vcShape' = image_shape
    /\ vcOut' = validate_coordinates(bbox, image_shape)
    /\ vcPc' = "returned"
    /\ CoordFrame

\* the caller goes on with the next box
ValidateDone ==
    /\ vcPc = "returned"
    /\ vcPc' = "idle"
    /\ vcBox' = ZeroBox
    /\ vcShape' = <<1, 1>>
    /\ vcOut' = ZeroBox
    /\ CoordFrame

NextCoord ==
    \/ /\ vcPc = "idle"
       /\ \E bbox \in Boxes, image_shape \in ImageShapes :
             ValidateCall(bbox, image_shape)
    \/ ValidateDone

SpecCoord == Init /\ [][NextCoord]_vars

TypeOK ==
    /\ broker \in [Tasks -> {"none", "queued", "reserved", "acked"}]
    /\ resultKey \in [StoreIds -> {Absent, "processing", "COMPLETED", "failed"}]
    /\ taskKey \in [StoreIds -> {Absent, "processing", "COMPLETED", "failed"}]
    /\ celeryMeta \in [Tasks -> {Absent, "STARTED", "PROCESSING", "SUCCESS", "FAILURE"}]
    /\ job \in [Workers -> Tasks \cup {NoJob}]
    /\ saved \in [Workers -> {"none", "true", "false"}]
    /\ exc \in [Workers -> {NoExc, FileNotFoundError, PipelineError, BackendError}]
    /\ \A w \in Workers : (pc[w] = "idle") <=> (job[w] = NoJob)
    /\ faults \in 0..MaxFaults
    /\ createdAt \in [StoreIds -> {NoTime} \cup 1..MaxClock]
    /\ index \subseteq StoreIds
    /\ now \in 1..MaxClock
    /\ wPc \in {"idle", "queued", "sent1", "sent2"}
    /\ upPc \in {"idle", "write", "enqueue"}
    /\ upTask \in Tasks \cup {NoJob}
    /\ prefetched \in [Workers -> SUBSET Tasks]
    /\ Len(jobKeys) <= MaxJobs
    /\ loads \in 0..MaxJobs
    /\ qrPc \in {"idle", "crops", "decode", "format", "raised"}
    /\ Len(qrOut) <= MaxQr
    /\ boxPc \in {"idle", "detect", "result"}
    /\ idPc \in [Tasks -> {"queued", "crops", "done"}]
    /\ fmtPc \in {"idle", "loaded", "once", "twice"}
    /\ qmsg \in [Tasks -> {"none", "queued", "unacked", "acked"}]
    /\ ladPc \in {"idle", "running", "returned"}
    /\ vcPc \in {"idle", "returned"}

\* ======================================================================
\* Properties
\* ======================================================================

\* C1: terminal states are absorbing -- once the stored status of a task is
\* completed or failed, no step changes it.
C1_TerminalAbsorbing ==
    [][\A t \in Tasks : IsTerminal(taskKey[t]) => taskKey'[t] = taskKey[t]]_vars

\* C2: for an uploaded task, GET /results/{task_id} never answers 404,
\* whatever the interleaving of the request with the worker's steps.
C2_NeverNotFound == resp.code # 404

\* C3: a Result row exists for a task exactly when the stored status of the
\* task is terminal.
C3_ResultIffTerminal ==
    \A t \in Tasks : (resultKey[t] # Absent) <=> IsTerminal(taskKey[t])

Terminal200(r) == r.code = 200 /\ IsTerminal(r.body)

\* C4: a polling client sees 202 responses and then 200 responses with a
\* terminal payload only; after a terminal 200 it sees nothing else.
C4_LifecycleOrder ==
    [][/\ resp'.code \in {0, 202, 200}
       /\ resp'.code = 200 => IsTerminal(resp'.body)
       /\ Terminal200(resp) => Terminal200(resp')]_vars

\* C5: a GET answered while the stored status is processing is answered 202.
C5_ProcessingGives202 ==
    [][(getPc # "idle" /\ getPc' = "idle" /\ taskKey[getTask] = "processing")
          => resp'.code = 202]_vars

\* C6: the message of a job is acknowledged only when a terminal Result row of
\* its task is in the store.
C6_AckAfterTerminalRow ==
    [][\A t \in Tasks : (broker[t] # "acked" /\ broker'[t] = "acked")
          => IsTerminal(resultKey[t])]_vars

\* C7: when save_result of the completed payload returns false the task does
\* not emit SUCCESS and does not return normally.
C7_RaiseOnStoreFailure ==
    \A w \in Workers : saved[w] = "false" => pc[w] # "return"

\* C8 (as claimed): after a worker loss between the end of the pipeline and
\* the terminal store write, the re-delivered job ends completed.
C8_RedeliveryCompletes ==
    \A t \in Tasks : (lostAfterCore[t] /\ broker[t] = "acked")
        => (resultKey[t] = "COMPLETED" /\ taskKey[t] = "COMPLETED")

SuccessPath == {"core", "handle_save", "handle_clear", "emit_success", "return"}

\* C8 (amended): after such a loss the source file is gone, so the
\* re-delivered execution fails validate_image_path and takes the failure
\* path: it never reaches the pipeline or the completed write, and the
\* terminal payload it stores is the failed one.

C8_RedeliveryFails ==
    \A w \in Workers : (job[w] # NoJob /\ lostAfterCore[job[w]]) =>
        /\ pc[w] \notin SuccessPath
        /\ (pc[w] \in {"exc_clear", "raise"} /\ saved[w] = "true")
              => (resultKey[job[w]] = "failed" /\ taskKey[job[w]] = "failed")

\* C8 witness: a re-delivered execution after such a loss has stored the
\* failed payload and is about to re-raise.
C8_Witness ==
    \E w \in Workers :
        /\ job[w] # NoJob
        /\ lostAfterCore[job[w]]
        /\ pc[w] = "raise"
        /\ saved[w] = "true"
        /\ resultKey[job[w]] = "failed"

\* C9: the worker calls clear_task_result only after save_result of the
\* terminal payload has returned true, on the success and the failure path.
C9_ClearOnlyAfterSave ==
    \A w \in Workers : pc[w] \in {"handle_clear", "exc_clear"} => saved[w] = "true"

\* C10: once the terminal row is written and the job has finished, the result
\* backend holds no celery-task-meta entry for the task.
C10_NoCacheEntryAfterJob ==
    \A t \in Tasks : (broker[t] = "acked" /\ IsTerminal(resultKey[t]))
        => celeryMeta[t] = Absent

\* positions of the worker inside the except block (lines 131-151)
ExceptPath == {"exc_emit_failure", "exc_save", "exc_clear", "raise"}

C12_UploadValidation ==
    [][(upPc = "idle" /\ <<upPc, upReq, upResp>>' # <<upPc, upReq, upResp>>) =>
          LET r == upReq'
              ctBad == r.content_type = <<>> \/ r.content_type[1] # "image"
              extBad == Lower(r.filename) \notin
                           {".jpg", ".jpeg", ".png", ".bmp", ".tiff", ".tif"}
              rejected(code) == /\ upResp'.code = code
                                /\ upPc' = "idle"
                                /\ UNCHANGED <<fileExists, broker>>
          IN /\ ctBad => rejected(400)
             /\ (~ctBad /\ extBad) => rejected(400)
             /\ (~ctBad /\ ~extBad /\ r.size > 10485760) => rejected(413)
             /\ (~ctBad /\ ~extBad /\ r.size <= 10485760) => upPc' # "idle"]_vars

\* C12 witness: a request with a valid type and extension and a body of
\* 10 MiB + 1 byte has been answered 413 and nothing was written or enqueued.
C12_Witness ==
    /\ upPc = "idle"
    /\ upReq.size = 10485761
    /\ upResp.code = 413
    /\ \A t \in Tasks : ~fileExists[t] /\ broker[t] = "none"

\* C13: a job is on the queue only when its file is on disk, so the worker
\* that dequeues it for the first time passes validate_image_path; the upload
\* response carries the id of the enqueued job and the status pending.
C13_FileBeforeEnqueue ==
    /\ \A t \in Tasks : broker[t] # "none" => fileExists[t]
    /\ \A w \in Workers : exc[w] # FileNotFoundError
    /\ upResp.code = 200 =>
          (upResp.status = "pending" /\ broker[upResp.task_id] # "none")

\* C13 witness: the worker that dequeued the job of an answered upload has
\* passed validate_image_path.
C13_Witness ==
    \E w \in Workers :
        /\ pc[w] = "core"
        /\ upResp.code = 200
        /\ upResp.task_id = job[w]

\* C14: an upload takes a task id and a file that are not in use, and a step
\* of a worker on its job, like an upload of one task, leaves the rows, the
\* result-backend entry, the file and the message of every other task
\* unchanged.
C14_TaskIsolation ==
    [][\A t \in Tasks :
          LET others == Tasks \ {t}
              touched == \/ broker'[t] # broker[t]
                         \/ \E w \in Workers : job[w] = t /\ pc'[w] # pc[w]
          IN /\ touched =>
                  \A u \in others :
                     /\ resultKey'[u] = resultKey[u]
                     /\ taskKey'[u] = taskKey[u]
                     /\ resultError'[u] = resultError[u]
                     /\ celeryMeta'[u] = celeryMeta[u]
                     /\ fileExists'[u] = fileExists[u]
                     /\ broker'[u] = broker[u]
             /\ (broker[t] = "none" /\ broker'[t] # "none") =>
                  (~fileExists[t] /\ taskKey[t] = Absent /\ fileExists'[t])]_vars

\* C14 witness: one task holds its terminal rows while a worker is writing
\* the terminal rows of another task.
C14_Witness ==
    \E t, u \in Tasks :
        /\ t # u
        /\ IsTerminal(resultKey[t])
        /\ resultKey[u] = "processing"
        /\ \E w \in Workers : job[w] = u /\ pc[w] \in {"handle_save", "exc_save"}

\* C16: a job that runs into the time limit goes through the failure path:
\* when it is ended by the limit, the stored status of its task is failed.
C16_TimeLimitFails ==
    [][\A w \in Workers :
          (pc[w] \notin {"idle", "return", "raise"} /\ pc'[w] = "idle"
             /\ broker'[job[w]] = "acked")
          => (taskKey'[job[w]] = "failed" /\ resultKey'[job[w]] = "failed")]_vars

\* C17: a worker slot holds at most one unacknowledged (reserved or running)
\* job; a job no slot is free for stays on the queue.
C17_OneUnackedPerSlot ==
    \A w \in Workers :
        /\ Cardinality(Unacked(w)) <= 1
        /\ \A t \in prefetched[w] : job[w] = NoJob

\* number of positions of a sequence of keys whose key differs from the one
\* before it (the first position counts)
RECURSIVE KeyChanges(_)
KeyChanges(ks) ==
    IF ks = <<>> THEN 0
    ELSE KeyChanges(SubSeq(ks, 1, Len(ks) - 1))
         + (IF Len(ks) = 1 \/ ks[Len(ks)] # ks[Len(ks) - 1] THEN 1 ELSE 0)

\* C15: within one worker process the model is loaded once for every run of
\* jobs with the same key (model_path, confidence_threshold) and once more
\* when the key changes; a job whose key is the key of the job before it uses
\* the same detector instance.
C15_LoadedOncePerKey ==
    [][/\ loads' = KeyChanges(jobKeys')
       /\ (jobKeys # <<>> /\ Len(jobKeys') > Len(jobKeys)
             /\ jobKeys'[Len(jobKeys')] = jobKeys[Len(jobKeys)])
          => detector' = detector]_vars

\* C18: save_result is idempotent on the task id -- a save_result(task_id,
\* payload) on a task whose rows already hold that payload leaves the store
\* as it is.
C18_SaveIdempotent ==
    [][(/\ wPc = "queued"
        /\ wPc' = "idle"
        /\ wCall.op = "save"
        /\ resultKey[wCall.task] = wCall.result.status
        /\ resultError[wCall.task] = wCall.result.error
        /\ taskKey[wCall.task] = wCall.result.status)
       => UNCHANGED storeVars]_vars

\* C19: save_result and delete_result are atomic for readers -- in every
\* state a reader can see, a task has its result key, its task key and its
\* index entry together or not at all, and the two keys carry the same status.
C19_RowsAgree ==
    \A t \in Tasks :
        /\ (resultKey[t] = Absent) <=> (taskKey[t] = Absent)
        /\ resultKey[t] = taskKey[t]
        /\ (t \in index) <=> (taskKey[t] # Absent)
        /\ (createdAt[t] = NoTime) <=> (taskKey[t] = Absent)

\* C19 witness: a save_result that replaces the processing payload of a task
\* has buffered its commands and not yet executed them, after the clock has
\* advanced, while another task has no rows.
C19_Witness ==
    /\ wPc = "queued"
    /\ wCall.op = "save"
    /\ resultKey[wCall.task] = "processing"
    /\ wCall.result.status = "COMPLETED"
    /\ \E u \in Tasks : u # wCall.task /\ taskKey[u] = Absent /\ now > 1

\* the orders of a set of tasks with the newest created_at first
NewestFirst(S) ==
    {f \in Perms(S) : \A i, j \in DOMAIN f : i < j => createdAt[f[i]] >= createdAt[f[j]]}

\* C20: for a store with N tasks, list_results(page p, limit l) without a
\* status filter answers the tasks ranked (p-1)*min(l,100)+1 to p*min(l,100)
\* newest first, with total = N, page = p and limit = min(l,100).
C20_Pagination ==
    [][(listed' # listed /\ listed'.req[3] = "") =>
          LET p == listed'.req[1]
              l == Min(listed'.req[2], 100)
              all == {t \in Tasks : taskKey[t] # Absent}
              N == Cardinality(all)
              ids == [i \in DOMAIN listed'.tasks |-> listed'.tasks[i].task_id]
          IN /\ listed'.total = N
             /\ listed'.page = p
             /\ listed'.limit = l
             /\ \E full \in NewestFirst(all) :
                   ids = SubSeq(full, (p - 1) * l + 1, Min(p * l, N))]_vars

TaskIds(tasks) == [i \in DOMAIN tasks |-> tasks[i].task_id]
Distinct(seq) == \A i, j \in DOMAIN seq : seq[i] = seq[j] => i = j
Range(seq) == {seq[i] : i \in DOMAIN seq}

\* C21: list_all_results(limit) answers the min(limit, N) tasks with the
\* greatest created_at among all N stored tasks, newest first.
C21_NewestListed ==
    [][(queried' # queried /\ queried'.op = "all") =>
          LET all == {t \in StoreIds : taskKey[t] # Absent}
          IN \E full \in NewestFirst(all) :
                TaskIds(queried'.tasks) = Take(full, queried'.limit)]_vars

\* C22: list_results_by_status(status, limit) answers only tasks with exactly
\* that status, and min(limit, k) of them, k being the number of stored tasks
\* with that status.
C22_StatusListed ==
    [][(queried' # queried /\ queried'.op = "status") =>
          LET matching == {t \in StoreIds : taskKey[t] = queried'.status}
              ids == TaskIds(queried'.tasks)
          IN /\ \A i \in DOMAIN queried'.tasks :
                   queried'.tasks[i].status = queried'.status
             /\ Distinct(ids)
             /\ Range(ids) \subseteq matching
             /\ Len(ids) = Min(queried'.limit, Cardinality(matching))]_vars

\* C23: a period query answers tasks with start <= created_at <= end (and
\* with the status, when one is given), and min(limit, 1000, k) of them, k
\* being the number of such stored tasks.
C23_PeriodListed ==
    [][(queried' # queried /\ queried'.op = "period") =>
          LET q == queried'
              inPeriod == {t \in StoreIds :
                              /\ taskKey[t] # Absent
                              /\ q.start <= createdAt[t]
                              /\ createdAt[t] <= q.end
                              /\ q.status # "" => taskKey[t] = q.status}
              ids == TaskIds(q.tasks)
          IN /\ Distinct(ids)
             /\ Range(ids) \subseteq inPeriod
             /\ Len(ids) = Min(Min(q.limit, 1000), Cardinality(inPeriod))]_vars

\* models/base.py TaskStatus: the status values of the API
TaskStatus == {"pending", "processing", "completed", "failed"}

\* C24: every status stored in the task metadata of a task is one of pending,
\* processing, completed, failed (lower case), so the status filter
\* "completed" matches every successfully processed task.
C24_StatusValues ==
    \A t \in StoreIds : taskKey[t] # Absent => taskKey[t] \in TaskStatus

\* C25: a GET /results/{task_id} that finds neither a result nor task
\* metadata in the store goes on to the result backend, and answers 202 when
\* the state read there is PENDING or PROCESSING and 404 for every other
\* state.
C25_BusTier ==
    [][/\ (getPc = "read_store" /\ getPc' # getPc /\
           resultKey[getTask] = Absent /\ taskKey[getTask] = Absent)
          => getPc' = "read_bus"
       /\ (getPc = "read_bus" /\ getPc' = "idle")
          => resp' = [code |-> IF BusState(getTask) \in {"PENDING", "PROCESSING"}
                               THEN 202 ELSE 404,
                      body |-> "detail"]]_vars

\* C25 witness: the store holds nothing for the polled task, its state in
\* the result backend is FAILURE, and the GET was answered 404 from there.
C25_Witness ==
    /\ resultKey[getTask] = Absent
    /\ taskKey[getTask] = Absent
    /\ BusState(getTask) = "FAILURE"
    /\ getPc = "idle"
    /\ resp = [code |-> 404, body |-> "detail"]

\* the formatted QR codes belong to the image: process_image has returned
Formatted == qrPc = "idle" /\ Len(qrOut) = Len(image.qrs)

\* C26: for each detected QR, content and decode_source follow the priority:
\* the text the crop ladder decoded with decode_source crop; otherwise the
\* content of the direct decode of that QR with decode_source direct;
\* otherwise PENDING_SCAN with decode_source none.
C26_DecodePriority ==
    Formatted =>
        \A i \in DOMAIN image.qrs :
            LET ladder == image.qrs[i].ladder
                direct == direct_qr_map_get(image.direct, image.qrs[i].pos)
            IN /\ qrOut[i].decode_source \in {"crop", "direct", "none"}
               /\ IF Truthy(ladder)
                  THEN qrOut[i].content = ladder /\ qrOut[i].decode_source = "crop"
                  ELSE IF Truthy(direct)
                  THEN qrOut[i].content = direct /\ qrOut[i].decode_source = "direct"
                  ELSE qrOut[i].content = "PENDING_SCAN"
                       /\ qrOut[i].decode_source = "none"

\* C27: a detected QR whose crop no strategy of the ladder decodes, and that
\* no direct decode matches, has content DECODE_FAILED and decode_source
\* none; decode_source crop comes only with the text the ladder decoded.
C27_DecodeFailed ==
    Formatted =>
        \A i \in DOMAIN image.qrs :
            LET ladder == image.qrs[i].ladder
                direct == direct_qr_map_get(image.direct, image.qrs[i].pos)
            IN /\ (~Truthy(ladder) /\ ~Truthy(direct))
                  => (qrOut[i].content = "DECODE_FAILED"
                      /\ qrOut[i].decode_source = "none")
               /\ qrOut[i].decode_source = "crop"
                  => (Truthy(ladder) /\ qrOut[i].content = ladder)

\* C28: every bounding_box of a result payload, in detected_objects and in
\* qr_codes, lies inside the original image: 0 <= x, 0 <= y, x + width <= W
\* and y + height <= H for the W x H of image_resolution.
C28_BoxInsideOriginal ==
    LET W == payload.image_resolution[1]
        H == payload.image_resolution[2]
        Inside(bbox) == /\ 0 <= bbox.x
                        /\ 0 <= bbox.y
                        /\ bbox.x + bbox.width <= W
                        /\ bbox.y + bbox.height <= H
    IN /\ \A i \in DOMAIN payload.detected_objects : Inside(payload.detected_objects[i])
       /\ \A i \in DOMAIN payload.qr_codes : Inside(payload.qr_codes[i])

\* C29: every detection of every task has an id of its own, and no two
\* detections, of one task or of two, write the same crop file path.
C29_FreshIds ==
    /\ \A t, u \in Tasks : \A i \in DOMAIN detIds[t], j \in DOMAIN detIds[u] :
          (<<t, i>> # <<u, j>>) => detIds[t][i] # detIds[u][j]
    /\ \A f, g \in cropFiles : f # g => f.path # g.path

\* C30: format_api_response is idempotent and pure -- formatting the
\* formatted payload gives the formatted payload again, and the stored
\* payload is what it was before it was formatted.
C30_FormatIdempotent ==
    /\ fmtPc \in {"once", "twice"} => stored = given
    /\ fmtPc = "twice" => (out1 = format_api_response(given) /\ out2 = out1)

\* C30 witness: a completed payload with a QR code, whose extra fields
\* (status, task_info, decode_source) the formatter drops, was formatted
\* twice.
C30_Witness ==
    /\ fmtPc = "twice"
    /\ HasKey(stored, "scan_metadata")
    /\ stored.qr_codes # <<>>
    /\ out1 # stored
    /\ ~HasKey(out2, "status")
    /\ ~HasKey(out2.qr_codes[1], "decode_source")

\* C31: the terminal progress token is emitted only after the terminal
\* payload is committed -- whenever the state of a task in the result
\* backend is SUCCESS or FAILURE, the store holds a terminal payload for it.
C31_TerminalTokenAfterCommit ==
    \A t \in Tasks :
        BusState(t) \in {"SUCCESS", "FAILURE"} => IsTerminal(resultKey[t])

\* C32: the processing row of a job is written before anything else the job
\* does, so a terminal payload is only ever written for a task that already
\* has a row (the processing row, or what followed it), and a task that was
\* never delivered to a worker has no row.
C32_ProcessingRowFirst ==
    [][\A t \in Tasks :
          /\ (IsTerminal(resultKey'[t]) /\ resultKey'[t] # resultKey[t])
                => resultKey[t] # Absent
          /\ (broker'[t] \in {"none", "queued"} /\ celeryMeta'[t] = Absent
              /\ resultKey[t] = Absent)
                => resultKey'[t] = Absent]_vars

NonDecreasing(s) == \A i, j \in DOMAIN s : i <= j => s[i] <= s[j]

C34_CompletedStays ==
    [][\A w \in Workers :
          (job[w] # NoJob /\ saved[w] = "true" /\ job'[w] = job[w]
           /\ resultKey[job[w]] = "COMPLETED")
             => (resultKey'[job[w]] = "COMPLETED"
                 /\ taskKey'[job[w]] = taskKey[job[w]])]_vars

FirstDecodable(crop) ==
    CHOOSE i \in DOMAIN Ladder :
        /\ Ladder[i] \in crop
        /\ \A j \in 1..(i - 1) : Ladder[j] \notin crop

\* C35: decode_multiple_attempts makes its attempts in the order of the
\* ladder, returns what the first attempt that reads the crop returned
\* without making any later attempt, and returns None only when every
\* attempt of the ladder was made and failed.
C35_FirstMatch ==
    /\ attempts = SubSeq(Ladder, 1, Len(attempts))
    /\ ladPc = "returned" =>
          IF decodable = {}
          THEN decoded = None /\ attempts = Ladder
          ELSE /\ decoded = decode_qr_from_crop(Ladder[FirstDecodable(decodable)],
                                                decodable)
               /\ Len(attempts) = FirstDecodable(decodable)
               /\ decoded # None

\* a crop that two attempts read, the ladder returned at the first of them
C35_Witness ==
    /\ ladPc = "returned"
    /\ Cardinality(decodable) = 2
    /\ "original" \notin decodable
    /\ decoded # None
    /\ Len(attempts) < Len(Ladder)

\* C36: a failure while cropping or decoding one QR detection is absorbed
\* for that QR only -- process_image never raises because of a crop, it
\* always returns a result.
C36_CropFailureAbsorbed == qrPc # "raised"

\* C37: under fairness every uploaded task eventually has a terminal status
\* (completed or failed) in the store.
C37_EventuallyTerminal ==
    \A t \in Tasks : (broker[t] # "none") ~> IsTerminal(resultKey[t])

\* C38: prepare_processing_config returns the default config with the
\* job's own config entries over it and leaves DEFAULT_CONFIG as it was, so
\* the config of a job is a function of that job's metadata alone, whatever
\* jobs the process handled before.
C38_ConfigOfOwnMetadata ==
    /\ defaultConfig = DEFAULT_CONFIG
    /\ handled # <<>> =>
          LET task_metadata == handled[Len(handled)]
              own == IF HasKey(task_metadata, "config")
                     THEN task_metadata.config ELSE EmptyDict
          IN /\ jobConfig = prepare_processing_config(task_metadata)
             /\ DOMAIN jobConfig = DOMAIN DEFAULT_CONFIG \cup DOMAIN own
             /\ \A k \in DOMAIN jobConfig :
                   jobConfig[k] = IF k \in DOMAIN own THEN own[k]
                                  ELSE DEFAULT_CONFIG[k]

\* a job without overrides after a job that overrode confidence_threshold
\* and save_crops
C38_Witness ==
    /\ Len(handled) >= 2
    /\ HasKey(handled[1], "config")
    /\ HasKey(handled[1].config, "save_crops")
    /\ HasKey(handled[1].config, "confidence_threshold")
    /\ ~HasKey(handled[Len(handled)], "config")
    /\ jobConfig.confidence_threshold = 50

\* C39: the created_at of a task is fixed when its row is first written: a
\* later save_result for the same task id leaves it unchanged.
C39_CreatedAtFixed ==
    [][\A t \in StoreIds :
          (createdAt[t] # NoTime /\ taskKey'[t] # Absent)
             => createdAt'[t] = createdAt[t]]_vars

\* the bounds of the claim, for a box in pixels and an image shape
InBounds(box, image_shape) ==
    /\ 0 <= box.x /\ box.x <= image_shape[2] - 1
    /\ 0 <= box.y /\ box.y <= image_shape[1] - 1
    /\ box.width >= 1 /\ box.height >= 1
    /\ box.x + box.width <= image_shape[2]
    /\ box.y + box.height <= image_shape[1]

\* a box in pixel fractions that already lies inside the image
Inside(bbox, image_shape) ==
    /\ 0 <= bbox.x /\ bbox.x <= Px(image_shape[2] - 1)
    /\ 0 <= bbox.y /\ bbox.y <= Px(image_shape[1] - 1)
    /\ bbox.width >= Px(1) /\ bbox.height >= Px(1)
    /\ bbox.x + bbox.width <= Px(image_shape[2])
    /\ bbox.y + bbox.height <= Px(image_shape[1])

Whole(bbox) == \A k \in DOMAIN bbox : bbox[k] % Resolution = 0
Unchanged(bbox, out) == \A k \in DOMAIN bbox : bbox[k] = Px(out[k])

\* C40 (as claimed): validate_coordinates returns integers within the
\* bounds of the image, and a box already inside the image is returned
\* unchanged.
C40_ValidBoxUnchanged ==
    vcPc = "returned" =>
        /\ InBounds(vcOut, vcShape)
        /\ Inside(vcBox, vcShape) => Unchanged(vcBox, vcOut)

\* C40 (amended): validate_coordinates returns integers within the bounds of
\* the image; a box of whole pixels already inside the image is returned
\* unchanged, any other box inside the image is truncated to whole pixels.
C40_ValidBoxTruncated ==
    vcPc = "returned" =>
        /\ InBounds(vcOut, vcShape)
        /\ (Inside(vcBox, vcShape) /\ Whole(vcBox)) => Unchanged(vcBox, vcOut)
        /\ Inside(vcBox, vcShape) =>
              \A k \in DOMAIN vcBox : vcOut[k] = int(vcBox[k])

\* a box inside the image that is not of whole pixels, clamped nowhere
C40_Witness ==
    /\ vcPc = "returned"
    /\ Inside(vcBox, vcShape)
    /\ ~Whole(vcBox)
    /\ ~Unchanged(vcBox, vcOut)
    /\ vcShape = <<MaxSide, MaxSide>>

====
